---- MODULE Spec2Model ----
(***************************************************************************)
(* RESTerville: forward pipeline (feature service -> PostgreSQL -> bucket), *)
(* backup archiver and geometry translator, modelled from src/.             *)
(*                                                                          *)
(* Spec        run_pg_script.generator of src/lib/agol_to_pg.py:            *)
(*             download_features, download_attachments, transfer_attachments*)
(*             with truncate_or_delete_table of src/lib/sql.py.             *)
(* SpecBackup  main of src/lib/backup.py: download_as_fgdb with             *)
(*             upload_with_retry, then delete_old_archives.                 *)
(* SpecGeom    esri_to_geojson of src/lib/esri_to_geojson.py followed by    *)
(*             convert_geojson_to_esri_geometry of src/lib/pg_to_agol.py.   *)
(***************************************************************************)
EXTENDS Integers, Sequences, FiniteSets, TLC

\* ---------------------------------------------------------------- bounds
MaxBatch == 2
MaxFeatures == 3
MaxAttachments == 3
MaxItems == 2
Today == 2
MaxPositions == 2
MaxParts == 2
MaxRaceAttachments == 1
MaxLines == 4
PipeCapacity == 1

\* --------------------------------------------------- program constants
MAX_UPLOAD_RETRIES == 3
RETRY_DELAY_SECONDS == 5

\* ------------------------------------------------------------- variables
VARIABLES
  pc,              \* position of run_pg_script.generator
  outcome,         \* "running", "finished" (line 827 reached), "error" (line 829) or
                   \* "aborted" (parse_args or run_pg_script called abort)
  lines,           \* progress lines yielded so far (as a set of texts)
  failedIn,        \* the phase whose except clause re-raised, or "none"
  faults,          \* failures the environment has injected so far
  batch_size,      \* args.batch
  max_record_count, \* the most features the service returns for one query
  layer,           \* number of features the service layer holds
  featTable,       \* destination table: [exists, rows]
  prep,            \* the last call of truncate_or_delete_table
  start,           \* download_features: start
  total_imported,  \* download_features: total_imported
  offsets,         \* resultOffset of every _fetch_data call, in order
  converted,       \* len(geojson['features']) of every converted page, in order
  loads,           \* number of _run_ogr2ogr invocations that succeeded
  reported,        \* "Total features imported" value yielded, or -1
  groups,          \* attachment groups the service holds (each a list of attachment ids)
  globalIdField,   \* globalIdField of the layer metadata, or "null"
  joins,           \* [parent_field, parent_lookup] of every INSERT ... SELECT issued
  attTable,        \* {table}_attach: [exists, rows]
  tempTable,       \* _{table}_attach, the session's staging table
  nextOid,         \* next value of the BIGSERIAL behind {table}_attach.objectid
  a_start,         \* download_attachments: start
  a_total,         \* download_attachments: total_imported
  a_offsets,       \* resultOffset of every _fetch_attachment_data call, in order
  a_reported,      \* total yielded by download_attachments, or -1
  bucket,          \* names of the objects in the bucket
  listed,          \* names bucket.list_blobs(prefix=table) returned
  blobs,           \* transfer_attachments: the blobs dict (its keys)
  rowIdx,          \* transfer_attachments: index of the row fetchone() returns next
  record_count,    \* transfer_attachments: record_count
  rowLog,          \* per processed row: target, whether it was in the bucket, uploaded
  deleted,         \* names of the objects transfer_attachments deleted
  b_pc,            \* position of backup.py main()
  n_items,         \* len(item_list)
  max_items,       \* args.max_items
  duration,        \* args.duration when remove_archives is yes, else -1
  archives,        \* names of the objects in the backup bucket
  count,           \* download_as_fgdb: count
  item,            \* download_as_fgdb: the item of this iteration and what was done with it
  added_files,     \* download_as_fgdb: added_files
  skipped_files,   \* download_as_fgdb: skipped_files
  attempt,         \* upload_with_retry: attempt
  tries,           \* upload_with_retry: outcome of every upload_from_filename call
  slept,           \* upload_with_retry: seconds spent in time.sleep
  upload_result,   \* upload_with_retry: "none" while running, then "True" / "False"
  listing,         \* delete_old_archives: the names bucket.list_blobs() returned
  pruned,          \* delete_old_archives: the names it deleted
  decisions,       \* what download_as_fgdb did with every item so far, in order
  g_pc,            \* position of a geometry's trip: "idle", "native", "geojson", "esri"
  g_native,        \* the geometry of a feature of the service's response
  g_geojson,       \* the geometry esri_to_geojson produced for it
  g_esri,          \* what convert_geojson_to_esri_geometry made of that
  r_pc,            \* position of pg_to_agol.py main()
  args,            \* pg_to_agol: args.truncate, args.batch, args.ignore
  pg_table,        \* the relational table: [rows, columns, pk]
  remote_layer,    \* the layer behind args.url: [exists, features]
  held_before,     \* the features the layer held when the run started
  token,           \* get_token's result: "none" before the call, "ok", or "None"
  remote_calls,    \* every request sent to the feature layer, in order
  prepared_features, \* prepare_features' result: [ids, attributes]
  r_start,         \* append_features: start
  run_pc,          \* two concurrent runs: the position of each
  run_blobs,       \* two concurrent runs: the blobs dict of each
  run_rows,        \* two concurrent runs: the rows each one's SELECT returned
  run_idx,         \* two concurrent runs: index of the row each fetches next
  uploads,         \* two concurrent runs: every upload made, [run, target]
  deletions,       \* two concurrent runs: every object deleted, [run, target]
  overlapped,      \* two concurrent runs: a run has moved while the other was under way
  request,         \* the request's geometry_name, source_epsg, target_epsg ("none": not sent)
  metadata,        \* the layer's metadata: geometryType and extent.spatialReference
  parsed,          \* parse_args' namespace: has_geometry, geometry_name, source_epsg, target_epsg
  invocations,     \* the ogr2ogr command of every _run_ogr2ogr call, in order
  pass,            \* 1, or 2 once transfer_attachments is called a second time
  first,           \* the table's rows and the bucket when the first call had returned
  child_script,    \* generate: the writes the child process has still to make
  child_alive,     \* generate: the child process has not exited
  out_pipe,        \* generate: lines waiting in the child's stdout pipe
  err_pipe,        \* generate: lines waiting in the child's stderr pipe
  gen_pc,          \* generate: the statement of the loop it is at
  output,          \* generate: what process.stdout.readline() returned last
  forwarded        \* generate: the lines yielded so far, [out, err]

fvars == <<batch_size, max_record_count, layer, featTable, prep, start, total_imported,
           offsets, converted, loads, reported>>
avars == <<groups, globalIdField, joins, attTable, tempTable, nextOid, a_start, a_total,
           a_offsets, a_reported>>
svars == <<bucket, listed, blobs, rowIdx, record_count, rowLog, deleted>>
gvars == <<pc, outcome, lines, failedIn, faults>>
fvars_but_prep == <<batch_size, max_record_count, layer, featTable, start, total_imported,
                    offsets, converted, loads, reported>>
qvars == <<request, metadata, parsed, invocations>>
evars == <<pass, first>>
pvars == <<gvars, fvars, avars, svars, qvars, evars>>
bvars == <<b_pc, n_items, max_items, duration, archives, count, item, added_files,
           skipped_files, attempt, tries, slept, upload_result, listing, pruned,
           decisions>>
cvars == <<g_pc, g_native, g_geojson, g_esri>>
rvars == <<r_pc, args, pg_table, held_before, remote_layer, token, remote_calls, prepared_features,
           r_start>>
xvars == <<run_pc, run_blobs, run_rows, run_idx, uploads, deletions, overlapped>>
wvars == <<child_script, child_alive, out_pipe, err_pipe, gen_pc, output, forwarded>>
vars == <<pvars, bvars, cvars, rvars, xvars, wvars>>

\* --------------------------------------------------------------- helpers
Min(a, b) == IF a < b THEN a ELSE b

RECURSIVE SeqSum(_)
SeqSum(s) == IF s = <<>> THEN 0 ELSE s[1] + SeqSum(Tail(s))

RECURSIVE Flatten(_)
Flatten(ss) == IF ss = <<>> THEN <<>> ELSE ss[1] \o Flatten(Tail(ss))

StartsWith(s, prefix) ==
  Len(prefix) <= Len(s) /\ SubSeq(s, 1, Len(prefix)) = prefix

\* Python: sub in s
Contains(s, sub) ==
  \E i \in 0..(Len(s) - Len(sub)) : SubSeq(s, i + 1, i + Len(sub)) = sub

\* Python: s.split(sep)
RECURSIVE SplitOn(_, _)
SplitOn(s, sep) ==
  IF \A i \in 1..Len(s) : s[i] # sep
  THEN <<s>>
  ELSE LET k == CHOOSE i \in 1..Len(s) : s[i] = sep /\ \A j \in 1..(i - 1) : s[j] # sep
       IN <<SubSeq(s, 1, k - 1)>> \o SplitOn(SubSeq(s, k + 1, Len(s)), sep)

\* Python: sep.join(parts)
RECURSIVE JoinWith(_, _)
JoinWith(parts, sep) ==
  IF parts = <<>> THEN <<>>
  ELSE IF Len(parts) = 1 THEN parts[1]
  ELSE parts[1] \o <<sep>> \o JoinWith(Tail(parts), sep)

\* Python: parts[-n:] and parts[:-n]
LastParts(parts, n) == SubSeq(parts, IF Len(parts) > n THEN Len(parts) - n + 1 ELSE 1, Len(parts))
AllButLast(parts, n) == SubSeq(parts, 1, Len(parts) - n)

\* Python: s.replace(piece, '') for a piece that is one unit of the name
Without(s, piece) == SelectSeq(s, LAMBDA x : x # piece)

\* A Python call f(*positional, **keywords) binds iff every keyword names a
\* parameter not already bound positionally and every parameter is bound
\* (none of the functions called here has defaults or *args/**kwargs).
CallBinds(params, npos, keywords) ==
  /\ npos <= Len(params)
  /\ \A k \in keywords : \E i \in (npos + 1)..Len(params) : params[i] = k
  /\ \A i \in (npos + 1)..Len(params) : params[i] \in keywords

\* def esri_to_geojson(esri_json):
esri_to_geojson_params == <<"esri_json">>

\* esri_to_geojson(esri_json, has_geometry=has_geometry) in download_features
ConvertCallBinds == CallBinds(esri_to_geojson_params, 1, {"has_geometry"})

\* ------------------------------------------------- truncate_or_delete_table
\* What the database answers to a statement: success, or an exception with its
\* psycopg2 class and whether its text holds the foreign-key TRUNCATE message.
SqlOk == [cls |-> "none", fkmsg |-> FALSE]
FkTruncateError == [cls |-> "FeatureNotSupported", fkmsg |-> TRUE]
OtherNotSupported == [cls |-> "FeatureNotSupported", fkmsg |-> FALSE]
OtherDbError == [cls |-> "DatabaseError", fkmsg |-> FALSE]

\* TRUNCATE ... CASCADE truncates the referencing tables too, so PostgreSQL
\* raises the foreign-key error only without CASCADE.
TruncateOutcomes(cascade) ==
  {SqlOk, OtherNotSupported, OtherDbError} \cup (IF cascade THEN {} ELSE {FkTruncateError})

DeleteOutcomes == {SqlOk, OtherDbError}

NoPrep == [called |-> FALSE, truncate |-> SqlOk, delete |-> SqlOk, log |-> <<>>,
           raised |-> FALSE, cleared |-> FALSE, restarted |-> FALSE]

\* Variant of TakesDeleteFallback: the class alone decides, the message is not read.
TakesDeleteFallbackOnClass(t) == t.cls = "FeatureNotSupported"

\* The fallback branch is taken for FeatureNotSupported carrying the message.
TakesDeleteFallback(t) == t.cls = "FeatureNotSupported" /\ t.fkmsg

truncate_or_delete_table(t, d, reset_sequence) ==
  IF t = SqlOk
  THEN [called |-> TRUE, truncate |-> t, delete |-> SqlOk, log |-> <<"TRUNCATE">>,
        raised |-> FALSE, cleared |-> TRUE, restarted |-> reset_sequence]
  ELSE IF TakesDeleteFallback(t)
  THEN [called |-> TRUE, truncate |-> t, delete |-> d, log |-> <<"TRUNCATE", "DELETE">>,
        raised |-> (d # SqlOk), cleared |-> (d = SqlOk), restarted |-> FALSE]
  ELSE [called |-> TRUE, truncate |-> t, delete |-> SqlOk, log |-> <<"TRUNCATE">>,
        raised |-> TRUE, cleared |-> FALSE, restarted |-> FALSE]

\* Variant of PrepareTable: the table is emptied without asking whether it exists.
PrepareTableAlways(table_exists, t, d) == truncate_or_delete_table(t, d, TRUE)

\* download_features lines 394-399, download_attachments lines 491-495: the
\* table is emptied only when to_regclass found it
PrepareTable(table_exists, t, d) ==
  IF table_exists THEN truncate_or_delete_table(t, d, TRUE) ELSE NoPrep

\* ------------------------------------------------------ generator plumbing
\* An exception leaving download_features / download_attachments: the phase's
\* except clause yields its error line and re-raises, the generator's except
\* clause yields "An error occurred" and the stream ends.
PhaseErrorLine(phase) ==
  CASE phase = "download_features" -> "An error occurred during download_features"
    [] phase = "download_attachments" -> "An error occurred during download_attachments"
    [] OTHER -> "An error occurred getting bucket and database table"

\* Variant of AfterPhaseRaise: the generator swallows the error and goes on.
AfterPhaseRaiseGoesOn == [pc |-> "attachments_start", outcome |-> "running"]

AfterPhaseRaise == [pc |-> "done", outcome |-> "error"]

RaiseFrom(phase, yielded) ==
  /\ lines' = lines \cup yielded \cup {PhaseErrorLine(phase), "An error occurred"}
  /\ failedIn' = phase
  /\ pc' = AfterPhaseRaise.pc
  /\ outcome' = AfterPhaseRaise.outcome

\* ------------------------------------------------------- the environment
\* args.table
table == <<"T">>

\* Attachment ids the service hands out, and the display name of each.
AttachmentIds == <<"1", "2", "3", "4", "5">>

AttachmentName(id) ==
  CASE id = "1" -> <<"a", " ", "b", ".", "j">>
    [] id = "2" -> <<".", "h">>
    [] id = "3" -> <<"c", "-", "d", ".", "e", ".", "p">>
    [] id = "4" -> <<"d">>
    [] OTHER -> <<"e", ".", "j">>

\* The service's attachment groups: the ids 1..n cut into consecutive
\* non-empty groups, for every n up to MaxAttachments.
GroupSizes ==
  {z \in UNION {[1..k -> 1..MaxAttachments] : k \in 0..MaxAttachments} :
     SeqSum(z) <= MaxAttachments}

GroupsOf(z) ==
  [g \in 1..Len(z) |->
     [i \in 1..z[g] |-> AttachmentIds[SeqSum(SubSeq(z, 1, g - 1)) + i]]]

ServiceGroups == {GroupsOf(z) : z \in GroupSizes}

\* A row left in {table}_attach by an earlier run.
StaleRow == [objectid |-> 1, attachmentid |-> "5", name |-> <<"e", ".", "j">>,
             url |-> [host |-> "gcs", path |-> <<"T", "/", "5", ".", "j">>]]

\* Objects the bucket may hold when the run starts.
BucketCandidates ==
  { <<"T", "/", "1", ".", "j">>,            \* the object of attachment 1
    <<"T", "/", "9", ".", "j">>,            \* an object no attachment has
    <<"T", "_", "o", "/", "1", ".", "j">>,  \* an object of table T_o
    <<"U", "/", "1", ".", "j">> }           \* an object of table U

\* --------------------------------------------------------------- the run
\* backup.py is a separate process: nothing of it moves during a pipeline run.
NoItem == [title |-> <<>>, modified |-> 0, last_backup |-> 0, decision |-> "none",
           exports |-> 0, exported |-> FALSE, upload_calls |-> 0, cleaned |-> FALSE]

BackupIdle ==
  /\ b_pc = "idle"
  /\ n_items = 0
  /\ max_items = 0
  /\ duration = -1
  /\ archives = {}
  /\ count = 0
  /\ item = NoItem
  /\ added_files = <<>>
  /\ skipped_files = <<>>
  /\ attempt = 0
  /\ tries = <<>>
  /\ slept = 0
  /\ upload_result = "none"
  /\ listing = {}
  /\ pruned = {}
  /\ decisions = <<>>

\* No geometry is under way.
NoGeometry == [none |-> TRUE]

ConverterIdle ==
  /\ g_pc = "idle"
  /\ g_native = NoGeometry
  /\ g_geojson = NoGeometry
  /\ g_esri = NoGeometry

\* pg_to_agol.py is a separate process: no reverse transfer is under way.
NoFeatures == [ids |-> <<>>, attributes |-> {}]

ReverseIdle ==
  /\ r_pc = "idle"
  /\ args = [truncate |-> "no", batch |-> 1, ignore |-> {}]
  /\ pg_table = [rows |-> 0, columns |-> {}, pk |-> "none"]
  /\ remote_layer = [exists |-> FALSE, features |-> <<>>]
  /\ held_before = <<>>
  /\ token = "none"
  /\ remote_calls = <<>>
  /\ prepared_features = NoFeatures
  /\ r_start = 0

\* ------------------------------------------------------------- parse_args
\* "none" stands for None and for a parameter the request does not carry.
Truthy(v) == v # "none"

\* int(value) succeeds
IsNumeric(v) == v \in {"4326", "3857", "102100"}

NoSpatialReference == [none |-> TRUE]

NoRequest == [geometry_name |-> "none", source_epsg |-> "none", target_epsg |-> "none"]
NoMetadata == [geometryType |-> "none", spatialReference |-> NoSpatialReference]
NoArgs == [raised |-> FALSE, has_geometry |-> FALSE, geometry_name |-> "none",
           source_epsg |-> "none", target_epsg |-> "none"]

\* What the metadata request gets back.
MetadataOutcomes == {"ok", "non200"}

\* _fetch_geometry_type, lines 173-192
_fetch_geometry_type(resp, md) == IF resp = "ok" THEN md.geometryType ELSE "none"

\* Variant of _fetch_source_epsg: the legacy wkid is preferred.
_fetch_source_epsg_legacy(resp, md) ==
  LET spatial_ref == md.spatialReference
  IN IF resp # "ok" THEN "none"
     ELSE IF "wkid" \in DOMAIN spatial_ref THEN spatial_ref.wkid
     ELSE IF "latestWkid" \in DOMAIN spatial_ref THEN spatial_ref.latestWkid
     ELSE "none"

\* _fetch_source_epsg, lines 143-170
_fetch_source_epsg(resp, md) ==
  LET spatial_ref == md.spatialReference
  IN IF resp # "ok" THEN "none"
     ELSE IF "latestWkid" \in DOMAIN spatial_ref THEN spatial_ref.latestWkid
     ELSE IF "wkid" \in DOMAIN spatial_ref THEN spatial_ref.wkid
     ELSE "none"

\* parse_args, lines 754-767; raised: int() of a value that is not a number
parse_args(req, md, geomResp, epsgResp) ==
  LET has_geometry == Truthy(_fetch_geometry_type(geomResp, md))
      source_epsg == IF Truthy(req.source_epsg) THEN req.source_epsg
                     ELSE IF has_geometry THEN _fetch_source_epsg(epsgResp, md)
                     ELSE req.source_epsg
  IN [raised |-> \/ (Truthy(req.source_epsg) /\ ~IsNumeric(req.source_epsg))
                 \/ (Truthy(req.target_epsg) /\ ~IsNumeric(req.target_epsg)),
      has_geometry |-> has_geometry,
      geometry_name |-> req.geometry_name,
      source_epsg |-> source_epsg,
      target_epsg |-> req.target_epsg]

\* generator(), lines 791-792
EpsgWarning(a) ==
  IF a.has_geometry /\ ~Truthy(a.source_epsg) THEN {"WARNING: No source_epsg"} ELSE {}

\* ------------------------------------------------------------ _run_ogr2ogr
\* lines 293-307
geom_nlt(geom_type) ==
  IF geom_type = "Polygon" THEN "MULTIPOLYGON"
  ELSE IF geom_type = "LineString" THEN "MULTILINESTRING"
  ELSE CASE geom_type = "Point" -> "POINT"
         [] geom_type = "MultiPoint" -> "MULTIPOINT"
         [] geom_type = "MultiLineString" -> "MULTILINESTRING"
         [] geom_type = "MultiPolygon" -> "MULTIPOLYGON"
         [] OTHER -> "PROMOTE_TO_MULTI"

\* _run_ogr2ogr, lines 288-318: the options of the command that depend on the
\* arguments; geom_type is the type of the first feature of the file
_run_ogr2ogr(geometry_name, source_epsg, target_epsg, geom_type) ==
  LET spatial == Truthy(geometry_name)
  IN [nlt |-> IF spatial THEN geom_nlt(geom_type) ELSE "NONE",
      geometry_name |-> IF spatial THEN geometry_name ELSE "none",
      a_srs |-> IF spatial /\ Truthy(source_epsg) THEN source_epsg ELSE "none",
      t_srs |-> IF spatial /\ Truthy(target_epsg) THEN target_epsg ELSE "none"]

\* download_features, lines 429-433
LoaderCall(a, geom_type) ==
  IF a.has_geometry
  THEN _run_ogr2ogr(a.geometry_name, a.source_epsg, a.target_epsg, geom_type)
  ELSE _run_ogr2ogr("none", "none", "none", geom_type)

\* The geometry types esri_to_geojson can write for the first feature of a
\* page, given the layer's geometryType ("" for a feature without geometry).
PageKinds(geometryType) ==
  CASE geometryType = "esriGeometryPolygon" -> {"Polygon", "MultiPolygon", ""}
    [] geometryType = "esriGeometryPolyline" -> {"LineString", "MultiLineString", ""}
    [] geometryType = "esriGeometryPoint" -> {"Point", ""}
    [] OTHER -> {""}

\* No first call of transfer_attachments has returned yet.
NoFirst == [rows |-> <<>>, bucket |-> {}]

\* The request and the layer of the run: a polygon layer, no parameter sent
\* but the geometry column's name.
PolygonRequest == [geometry_name |-> "geom", source_epsg |-> "none", target_epsg |-> "none"]
PolygonMetadata == [geometryType |-> "esriGeometryPolygon",
                    spatialReference |-> [wkid |-> "102100", latestWkid |-> "3857"]]

\* The two runs of the concurrent scenario.
Runs == {1, 2}

\* No request is being streamed.
NoStream ==
  /\ child_script = <<>>
  /\ child_alive = FALSE
  /\ out_pipe = 0
  /\ err_pipe = 0
  /\ gen_pc = "idle"
  /\ output = "none"
  /\ forwarded = [out |-> 0, err |-> 0]

\* No second run: the pipeline runs alone.
NoRace ==
  /\ run_pc = [r \in Runs |-> "idle"]
  /\ run_blobs = [r \in Runs |-> {}]
  /\ run_rows = [r \in Runs |-> <<>>]
  /\ run_idx = [r \in Runs |-> 0]
  /\ uploads = {}
  /\ deletions = {}
  /\ overlapped = FALSE

Init ==
  /\ pc = "start"
  /\ outcome = "running"
  /\ lines = {}
  /\ failedIn = "none"
  /\ faults = {}
  /\ batch_size \in 1..MaxBatch
  /\ max_record_count = MaxBatch
  /\ layer \in 0..MaxFeatures
  /\ featTable \in {[exists |-> FALSE, rows |-> 0], [exists |-> TRUE, rows |-> 1]}
  /\ prep = NoPrep
  /\ start = 0
  /\ total_imported = 0
  /\ offsets = <<>>
  /\ converted = <<>>
  /\ loads = 0
  /\ reported = -1
  /\ groups \in ServiceGroups
  /\ globalIdField \in {"GlobalID", "null"}
  /\ joins = <<>>
  /\ attTable \in {[exists |-> FALSE, rows |-> <<>>],
                   [exists |-> TRUE, rows |-> <<StaleRow>>]}
  /\ tempTable = <<>>
  /\ nextOid = IF attTable.rows = <<>> THEN 1 ELSE 2
  /\ a_start = 0
  /\ a_total = 0
  /\ a_offsets = <<>>
  /\ a_reported = -1
  /\ bucket \in SUBSET BucketCandidates
  /\ listed = {}
  /\ blobs = {}
  /\ rowIdx = 0
  /\ record_count = 0
  /\ rowLog = <<>>
  /\ deleted = {}
  /\ request = PolygonRequest
  /\ metadata = PolygonMetadata
  /\ parsed = parse_args(PolygonRequest, PolygonMetadata, "ok", "ok")
  /\ invocations = <<>>
  /\ pass = 1
  /\ first = NoFirst
  /\ BackupIdle
  /\ ConverterIdle
  /\ ReverseIdle
  /\ NoRace
  /\ NoStream

\* generator(): lines 779-792, up to the call of download_features
GeneratorStart ==
  /\ pc = "start"
  /\ \E connected \in BOOLEAN :
       IF connected
       THEN /\ pc' = "features_start"
            /\ lines' = lines \cup {"Starting AGOL to PostgreSQL script"} \cup EpsgWarning(parsed)
            /\ UNCHANGED <<outcome, failedIn, faults>>
       ELSE /\ pc' = "done"
            /\ outcome' = "error"
            /\ lines' = lines \cup {"Starting AGOL to PostgreSQL script", "An error occurred"}
            /\ faults' = faults \cup {"connect"}
            /\ UNCHANGED failedIn
  /\ UNCHANGED <<fvars, avars, svars>>
  /\ UNCHANGED <<bvars, cvars, rvars, xvars, qvars, evars, wvars>>

\* Variant of InitialCursor: a cursor that starts past the first record.
InitialCursorFromOne == [start |-> 1, total_imported |-> 0]

\* lines 402-403
InitialCursor == [start |-> 0, total_imported |-> 0]

\* download_features, lines 386-403: table check and preparation
FeaturesStart ==
  /\ pc = "features_start"
  /\ \E t \in TruncateOutcomes(TRUE), d \in DeleteOutcomes :
       LET r == PrepareTable(featTable.exists, t, d)
       IN /\ prep' = r
          /\ featTable' = IF r.cleared THEN [featTable EXCEPT !.rows = 0] ELSE featTable
          /\ faults' = IF r.called /\ t # SqlOk THEN faults \cup {"truncate"} ELSE faults
          /\ IF r.raised
             THEN RaiseFrom("download_features", {"Starting download feature records"})
             ELSE /\ pc' = "features_loop"
                  /\ lines' = lines \cup {"Starting download feature records"}
                  /\ UNCHANGED <<outcome, failedIn>>
  /\ start' = InitialCursor.start
  /\ total_imported' = InitialCursor.total_imported
  /\ UNCHANGED <<batch_size, max_record_count, layer, offsets, converted, loads, reported, avars, svars>>
  /\ UNCHANGED <<bvars, cvars, rvars, xvars, qvars, evars, wvars>>

\* What _fetch_data gets back: HTTP 200 with a features array, a non-200
\* response, or HTTP 200 whose body has no features array (an error body).
FetchOutcomes == {"ok", "non200", "no_features"}

\* _run_ogr2ogr: subprocess.run(..., check=True) returns or raises.
LoadOutcomes == {"ok", "failed"}

\* The service answers a query for resultRecordCount features with at most its
\* own page cap.
ServedCount(requested, cap) == Min(requested, cap)

\* Features the service returns for resultOffset = offset, resultRecordCount = count.
PageSize(n, offset, requested) == IF offset >= n THEN 0 ELSE Min(requested, n - offset)

\* line 443: start += processed_features
AdvanceCursor(offset, processed, requested) == offset + processed

\* line 445: if processed_features < batch_size: break
LastPage(processed, requested) == processed < requested

\* Variant of EndsPagination: only an empty features array ends the loop.
EndsPaginationWhenEmpty(resp, n) == resp = "ok" /\ n = 0

\* line 407: not esri_json or 'features' not in esri_json or not esri_json['features']
EndsPagination(resp, n) == resp = "no_features" \/ n = 0

\* lines 449-450, then the generator goes on to download_attachments
FinishFeatures(total, yielded) ==
  /\ lines' = lines \cup yielded \cup {"Finished download feature records",
                                       "Total features imported"}
  /\ reported' = total
  /\ pc' = "attachments_start"
  /\ UNCHANGED <<outcome, failedIn>>

\* download_features, lines 405-447: one iteration of the while loop
FeaturePage ==
  /\ pc = "features_loop"
  /\ \E resp \in FetchOutcomes, load \in LoadOutcomes,
        geom_type \in PageKinds(metadata.geometryType) :
       LET n == IF resp = "ok" THEN PageSize(layer, start, ServedCount(batch_size, max_record_count)) ELSE 0
           batch == {"Processing batch", "Features in batch"}
       IN /\ offsets' = Append(offsets, start)
          /\ IF resp = "non200"
             THEN \* abort(400) raises inside _fetch_data
                  /\ RaiseFrom("download_features", {})
                  /\ faults' = faults \cup {"fetch"}
                  /\ UNCHANGED <<featTable, start, total_imported, converted, loads, reported,
                                 invocations>>
             ELSE IF EndsPagination(resp, n)
             THEN /\ FinishFeatures(total_imported, {})
                  /\ faults' = IF resp = "no_features" THEN faults \cup {"body"} ELSE faults
                  /\ UNCHANGED <<featTable, start, total_imported, converted, loads, invocations>>
             ELSE IF ~ConvertCallBinds
             THEN \* TypeError: unexpected keyword argument 'has_geometry'
                  /\ RaiseFrom("download_features", batch)
                  /\ UNCHANGED <<faults, featTable, start, total_imported, converted,
                                 loads, reported, invocations>>
             ELSE IF load = "failed"
             THEN /\ RaiseFrom("download_features", batch)
                  /\ converted' = Append(converted, n)
                  /\ invocations' = Append(invocations, LoaderCall(parsed, geom_type))
                  /\ faults' = faults \cup {"load"}
                  /\ UNCHANGED <<featTable, start, total_imported, loads, reported>>
             ELSE /\ converted' = Append(converted, n)
                  /\ invocations' = Append(invocations, LoaderCall(parsed, geom_type))
                  /\ loads' = loads + 1
                  /\ featTable' = [exists |-> TRUE, rows |-> featTable.rows + n]
                  /\ total_imported' = total_imported + n
                  /\ start' = AdvanceCursor(start, n, batch_size)
                  /\ UNCHANGED faults
                  /\ IF LastPage(n, batch_size)
                     THEN FinishFeatures(total_imported + n, batch)
                     ELSE /\ lines' = lines \cup batch
                          /\ UNCHANGED <<pc, outcome, failedIn, reported>>
  /\ UNCHANGED <<batch_size, max_record_count, layer, prep, avars, svars, request, metadata, parsed>>
  /\ UNCHANGED <<bvars, cvars, rvars, xvars, evars, wvars>>

\* ------------------------------------------------------ download_attachments
\* lines 624-625, then the generator goes on to transfer_attachments
FinishAttachments(total, yielded) ==
  /\ lines' = lines \cup yielded \cup {"Finished download attachment records",
                                       "Total attachments imported"}
  /\ a_reported' = total
  /\ pc' = "sync_start"
  /\ UNCHANGED <<outcome, failedIn>>

\* download_attachments, lines 478-516: table check, preparation or creation
AttachStart ==
  /\ pc = "attachments_start"
  /\ \E t \in TruncateOutcomes(FALSE), d \in DeleteOutcomes :
       LET r == PrepareTable(attTable.exists, t, d)
           \* CREATE TABLE ... references {parent_table}({oid}) needs the parent
           createFails == ~attTable.exists /\ ~featTable.exists
           yielded == {"Starting download attachment records"}
       IN /\ prep' = r
          /\ attTable' = IF r.cleared \/ (~attTable.exists /\ ~createFails)
                         THEN [exists |-> TRUE, rows |-> <<>>]
                         ELSE attTable
          /\ nextOid' = IF r.restarted \/ ~attTable.exists THEN 1 ELSE nextOid
          /\ faults' = IF r.called /\ t # SqlOk THEN faults \cup {"truncate"} ELSE faults
          /\ IF r.raised \/ createFails
             THEN RaiseFrom("download_attachments", yielded)
             ELSE /\ pc' = "attachments_loop"
                  /\ lines' = lines \cup yielded
                  /\ UNCHANGED <<outcome, failedIn>>
  /\ a_start' = 0
  /\ a_total' = 0
  /\ UNCHANGED <<fvars_but_prep, groups, globalIdField, joins, tempTable, a_offsets, a_reported,
                 svars>>
  /\ UNCHANGED <<bvars, cvars, rvars, xvars, qvars, evars, wvars>>

\* The groups queryAttachments returns for resultOffset / resultRecordCount.
AttachmentPage(gs, offset, requested) ==
  SubSeq(gs, offset + 1, Min(offset + requested, Len(gs)))

\* lines 530-543: one record per attachment of every group of the page
Records(page) ==
  LET ids == Flatten(page)
  IN [i \in 1..Len(ids) |->
        [attachmentid |-> ids[i], name |-> AttachmentName(ids[i]),
         url |-> [host |-> "agol", path |-> <<ids[i]>>]]]

\* lines 583-610: INSERT INTO {attachment_table} ... SELECT ... FROM {temp_table}
MergeStaging(rows, staging, oid) ==
  rows \o [i \in 1..Len(staging) |->
             [objectid |-> oid + i - 1, attachmentid |-> staging[i].attachmentid,
              name |-> staging[i].name, url |-> staging[i].url]]

\* The layer's metadata document: objectIdField always, globalIdField when the
\* layer has one.
LayerMetadata ==
  IF globalIdField = "null"
  THEN [objectIdField |-> "OBJECTID"]
  ELSE [objectIdField |-> "OBJECTID", globalIdField |-> globalIdField]

\* _fetch_metadata, lines 210-219 (a 200 answer): every requested field is a
\* key of the result, None ("null") when the document lacks it.
_fetch_metadata(document, fields) ==
  [f \in fields |-> IF f \in DOMAIN document THEN document[f] ELSE "null"]

\* lines 579-580
parent_field(ids) ==
  IF "globalIdField" \in DOMAIN ids THEN ids["globalIdField"] ELSE ids["objectIdField"]

\* line 581
parent_lookup(ids) ==
  IF "globalIdField" \in DOMAIN ids THEN "parent_globalid" ELSE "parent_oid"

\* lines 583-610: WHERE {parent_field} = {parent_lookup}
MergeJoin(ids) == [field |-> parent_field(ids), lookup |-> parent_lookup(ids)]

\* download_attachments, lines 518-622: one iteration of the while loop
AttachPage ==
  /\ pc = "attachments_loop"
  /\ \E resp \in {"ok", "non200"}, meta \in {"ok", "non200"} :
       LET page == IF resp = "ok" THEN AttachmentPage(groups, a_start, batch_size) ELSE <<>>
           records == Records(page)
           n == Len(records)
           staging == tempTable \o records
           batch == {"Processing batch", "Features in batch"}
           identifiers == _fetch_metadata(LayerMetadata, {"globalIdField", "objectIdField"})
       IN /\ a_offsets' = Append(a_offsets, a_start)
          /\ IF page = <<>>
             THEN \* _fetch_attachment_data returned None or no groups: break
                  /\ FinishAttachments(a_total, {})
                  /\ faults' = IF resp = "non200" THEN faults \cup {"fetch"} ELSE faults
                  /\ UNCHANGED <<joins, attTable, tempTable, nextOid, a_start, a_total>>
             ELSE IF meta = "ok" /\ parent_field(identifiers) = "null"
             THEN \* parent_field is None: WHERE None = parent_globalid fails
                  /\ RaiseFrom("download_attachments", batch)
                  /\ tempTable' = staging
                  /\ joins' = Append(joins, MergeJoin(identifiers))
                  /\ UNCHANGED <<faults, attTable, nextOid, a_start, a_total, a_reported>>
             ELSE /\ tempTable' = staging
                  /\ joins' = IF meta = "ok" THEN Append(joins, MergeJoin(identifiers))
                               ELSE joins
                  /\ attTable' = IF meta = "ok"
                                 THEN [attTable EXCEPT !.rows = MergeStaging(@, staging, nextOid)]
                                 ELSE attTable
                  /\ nextOid' = IF meta = "ok" THEN nextOid + Len(staging) ELSE nextOid
                  /\ faults' = IF meta = "ok" THEN faults ELSE faults \cup {"metadata"}
                  /\ a_total' = a_total + n
                  /\ a_start' = a_start + n
                  /\ LET yielded == IF meta = "ok" THEN batch
                                    ELSE batch \cup {"Unable to get globalIdField"}
                     IN IF n < batch_size
                        THEN FinishAttachments(a_total + n, yielded)
                        ELSE /\ lines' = lines \cup yielded
                             /\ UNCHANGED <<pc, outcome, failedIn, a_reported>>
  /\ UNCHANGED <<fvars, groups, globalIdField, svars>>
  /\ UNCHANGED <<bvars, cvars, rvars, xvars, qvars, evars, wvars>>

\* ------------------------------------------------------ transfer_attachments
\* bucket.list_blobs(prefix=table)
ListBlobs(objects, prefix) == {o \in objects : StartsWith(o, prefix)}

AlphaNum == {"a", "b", "c", "d", "e", "h", "j", "p", "1", "2", "3", "4", "5", "9"}

\* os.path.splitext on a name without path separators: the extension starts at
\* the last dot, unless only dots precede it.
LastDot(name) ==
  IF \E i \in 1..Len(name) : name[i] = "."
  THEN CHOOSE i \in 1..Len(name) :
         name[i] = "." /\ \A j \in (i + 1)..Len(name) : name[j] # "."
  ELSE 0

splitext(name) ==
  LET dot == LastDot(name)
  IN IF dot > 0 /\ \E j \in 1..(dot - 1) : name[j] # "."
     THEN <<SubSeq(name, 1, dot - 1), SubSeq(name, dot, Len(name))>>
     ELSE <<name, <<>>>>

\* re.sub(r'[^a-zA-Z0-9]', '_', file_name)
Sanitize(stem) == [i \in 1..Len(stem) |-> IF stem[i] \in AlphaNum THEN stem[i] ELSE "_"]

\* line 684: f'{table}/{attachmentid}{extension}'
Target(row) == table \o <<"/", row.attachmentid>> \o splitext(row.name)[2]

\* lines 679-681
SanitizedName(row) == Sanitize(splitext(row.name)[1]) \o splitext(row.name)[2]

\* Variant of CanonicalUrl: the URL still points at the service.
SourceUrl(target) == [host |-> "agol", path |-> target]

\* line 699
CanonicalUrl(target) == [host |-> "gcs", path |-> target]

\* Variant of BlobsAfterLookup: blobs.get in place of blobs.pop.
BlobsAfterGet(dict, target) == dict

\* line 686: blob = blobs.pop(target, None)
BlobsAfterLookup(dict, target) == dict \ {target}

\* lines 715-719 and generator lines 818-827
FinishGenerator(yielded) ==
  /\ lines' = lines \cup yielded \cup {"Finished AGOL to PostgreSQL script"}
  /\ pc' = "done"
  /\ outcome' = "finished"

\* Variant of SyncRaise: the row loop's error is swallowed and cleanup follows.
SyncRaiseThenCleanup(yielded) ==
  /\ lines' = lines \cup yielded
  /\ pc' = "sync_orphans"
  /\ outcome' = outcome
  /\ failedIn' = "transfer_attachments"

\* transfer_attachments raised: its except clause yields and re-raises, the
\* generator's inner except yields the error and the run finishes (818-827).
SyncRaise(yielded) ==
  /\ FinishGenerator(yielded \cup {"An error occurred getting bucket and database table"})
  /\ failedIn' = "transfer_attachments"

\* transfer_attachments, lines 646-671
SyncStart ==
  /\ pc = "sync_start"
  /\ \E bucketFound \in BOOLEAN :
       IF ~bucketFound
       THEN /\ SyncRaise({"Starting transfer attachments"})
            /\ faults' = faults \cup {"bucket"}
            /\ UNCHANGED <<listed, blobs, rowIdx>>
       ELSE /\ blobs' = ListBlobs(bucket, table)
            /\ listed' = ListBlobs(bucket, table)
            /\ rowIdx' = 1
            /\ lines' = lines \cup {"Starting transfer attachments"}
            /\ pc' = IF attTable.rows = <<>> THEN "sync_orphans" ELSE "sync_rows"
            /\ UNCHANGED <<outcome, failedIn, faults>>
  /\ record_count' = 0
  /\ UNCHANGED <<fvars, avars, bucket, rowLog, deleted>>
  /\ UNCHANGED <<bvars, cvars, rvars, xvars, qvars, evars, wvars>>

\* transfer_attachments, lines 674-704: one iteration of the row loop
SyncRow ==
  /\ pc = "sync_rows"
  /\ \E streamed \in BOOLEAN :
       LET row == attTable.rows[rowIdx]
           target == Target(row)
           found == target \in blobs
       IN /\ record_count' = record_count + 1
          /\ blobs' = BlobsAfterLookup(blobs, target)
          /\ IF ~found /\ ~streamed
             THEN \* _stream_to_gcs raised
                  /\ SyncRaise({"An error occurred during transfering attachments"})
                  /\ faults' = faults \cup {"stream"}
                  /\ rowLog' = Append(rowLog, [objectid |-> row.objectid, target |-> target,
                                               existed |-> target \in bucket,
                                               uploaded |-> FALSE, updated |-> FALSE])
                  /\ UNCHANGED <<attTable, bucket, rowIdx>>
             ELSE /\ bucket' = IF found THEN bucket ELSE bucket \cup {target}
                  /\ attTable' = [attTable EXCEPT !.rows[rowIdx] =
                                    [@ EXCEPT !.url = CanonicalUrl(target),
                                              !.name = SanitizedName(row)]]
                  /\ rowLog' = Append(rowLog, [objectid |-> row.objectid, target |-> target,
                                               existed |-> target \in bucket,
                                               uploaded |-> ~found, updated |-> TRUE])
                  /\ rowIdx' = rowIdx + 1
                  /\ lines' = lines \cup {IF found THEN "Attachments already exists"
                                           ELSE "Transferred"}
                  /\ pc' = IF rowIdx = Len(attTable.rows) THEN "sync_orphans" ELSE "sync_rows"
                  /\ UNCHANGED <<outcome, failedIn, faults>>
  /\ UNCHANGED <<fvars, groups, globalIdField, joins, tempTable, nextOid, a_start, a_total,
                 a_offsets, a_reported, listed, deleted>>
  /\ UNCHANGED <<bvars, cvars, rvars, xvars, qvars, evars, wvars>>

\* transfer_attachments, lines 711-719: orphan cleanup, and the generator's end
SyncOrphans ==
  /\ pc = "sync_orphans"
  /\ bucket' = bucket \ blobs
  /\ deleted' = blobs
  /\ FinishGenerator({"Finished transferring attachments"})
  /\ UNCHANGED <<failedIn, faults, fvars, avars, listed, blobs, rowIdx, record_count, rowLog>>
  /\ UNCHANGED <<bvars, cvars, rvars, xvars, qvars, evars, wvars>>

Next ==
  \/ GeneratorStart
  \/ FeaturesStart
  \/ FeaturePage
  \/ AttachStart
  \/ AttachPage
  \/ SyncStart
  \/ SyncRow
  \/ SyncOrphans

Spec == Init /\ [][Next]_vars

\* ----------------------------------------------- the request, then the run
\* The route from the request on: parse_args, then the generator. The layer
\* is small; the request and the layer's metadata vary.
Requests ==
  [geometry_name : {"none", "geom"},
   source_epsg : {"none", "4326", "abc"},
   target_epsg : {"none", "3857"}]

LayerMetadatas ==
  [geometryType : {"none", "esriGeometryPolygon"},
   spatialReference : {NoSpatialReference, [wkid |-> "102100"],
                       [wkid |-> "102100", latestWkid |-> "3857"]}]

ParseInit ==
  /\ BackupIdle
  /\ ConverterIdle
  /\ ReverseIdle
  /\ NoRace
  /\ NoStream
  /\ pc = "parse" /\ outcome = "running" /\ lines = {} /\ failedIn = "none" /\ faults = {}
  /\ max_record_count = MaxBatch
  /\ batch_size = MaxBatch /\ layer \in 0..1
  /\ featTable \in {[exists |-> FALSE, rows |-> 0], [exists |-> TRUE, rows |-> 1]}
  /\ prep = NoPrep /\ start = 0 /\ total_imported = 0 /\ offsets = <<>>
  /\ converted = <<>> /\ loads = 0 /\ reported = -1
  /\ groups \in {g \in ServiceGroups : Len(Flatten(g)) <= 1}
  /\ globalIdField = "GlobalID" /\ joins = <<>>
  /\ attTable = [exists |-> FALSE, rows |-> <<>>]
  /\ tempTable = <<>> /\ nextOid = 1 /\ a_start = 0 /\ a_total = 0 /\ a_offsets = <<>>
  /\ a_reported = -1
  /\ bucket \in SUBSET {<<"T", "/", "1", ".", "j">>, <<"T", "/", "9", ".", "j">>}
  /\ listed = {} /\ blobs = {} /\ rowIdx = 0 /\ record_count = 0
  /\ rowLog = <<>> /\ deleted = {}
  /\ request \in Requests
  /\ metadata \in LayerMetadatas
  /\ parsed = NoArgs
  /\ invocations = <<>>
  /\ pass = 1 /\ first = NoFirst

\* run_pg_script, lines 771-775 and 833-837: parse_args (lines 727-769), which
\* aborts on a missing parameter or an object id field that is taken, and
\* raises on an EPSG value that is not a number
ParseArgs ==
  /\ pc = "parse"
  /\ \E valid \in BOOLEAN, geomResp \in MetadataOutcomes, epsgResp \in MetadataOutcomes :
       LET a == parse_args(request, metadata, geomResp, epsgResp)
           asked == ~Truthy(request.source_epsg) /\ a.has_geometry
       IN /\ faults' = faults \cup (IF geomResp = "ok" THEN {} ELSE {"geometry_type"})
                               \cup (IF asked /\ epsgResp # "ok" THEN {"source_epsg"} ELSE {})
          /\ IF ~valid \/ a.raised
             THEN /\ pc' = "done"
                  /\ outcome' = "aborted"
                  /\ UNCHANGED parsed
             ELSE /\ pc' = "start"
                  /\ parsed' = a
                  /\ UNCHANGED outcome
  /\ UNCHANGED <<lines, failedIn, fvars, avars, svars, request, metadata, invocations>>
  /\ UNCHANGED <<bvars, cvars, rvars, xvars, evars, wvars>>

ParseNext ==
  \/ ParseArgs
  \/ Next

SpecParse == ParseInit /\ [][ParseNext]_vars

\* ------------------------------------------ transfer_attachments, twice
\* The run on a layer without features, followed by a second call of
\* transfer_attachments on the table and the bucket as the first call left them.
ResyncInit ==
  /\ BackupIdle
  /\ ConverterIdle
  /\ ReverseIdle
  /\ NoRace
  /\ NoStream
  /\ pc = "start" /\ outcome = "running" /\ lines = {} /\ failedIn = "none" /\ faults = {}
  /\ max_record_count = MaxBatch
  /\ batch_size \in 1..MaxBatch /\ layer = 0
  /\ featTable = [exists |-> TRUE, rows |-> 1]
  /\ prep = NoPrep /\ start = 0 /\ total_imported = 0 /\ offsets = <<>>
  /\ converted = <<>> /\ loads = 0 /\ reported = -1
  /\ groups \in ServiceGroups
  /\ globalIdField = "GlobalID" /\ joins = <<>>
  /\ attTable \in {[exists |-> FALSE, rows |-> <<>>],
                   [exists |-> TRUE, rows |-> <<StaleRow>>]}
  /\ tempTable = <<>>
  /\ nextOid = IF attTable.rows = <<>> THEN 1 ELSE 2
  /\ a_start = 0 /\ a_total = 0 /\ a_offsets = <<>> /\ a_reported = -1
  /\ bucket \in SUBSET BucketCandidates
  /\ listed = {} /\ blobs = {} /\ rowIdx = 0 /\ record_count = 0
  /\ rowLog = <<>> /\ deleted = {}
  /\ request = PolygonRequest
  /\ metadata = PolygonMetadata
  /\ parsed = parse_args(PolygonRequest, PolygonMetadata, "ok", "ok")
  /\ invocations = <<>>
  /\ pass = 1 /\ first = NoFirst

\* transfer_attachments (lines 632-724) called again, right after a call that
\* returned without raising
SyncAgain ==
  /\ pc = "done" /\ outcome = "finished" /\ pass = 1
  /\ "Finished transferring attachments" \in lines
  /\ pass' = 2
  /\ first' = [rows |-> attTable.rows, bucket |-> bucket]
  /\ pc' = "sync_start"
  /\ outcome' = "running"
  /\ lines' = {}
  /\ listed' = {} /\ blobs' = {} /\ rowIdx' = 0 /\ record_count' = 0
  /\ rowLog' = <<>> /\ deleted' = {}
  /\ UNCHANGED <<failedIn, faults, fvars, avars, bucket, qvars>>
  /\ UNCHANGED <<bvars, cvars, rvars, xvars, wvars>>

ResyncNext ==
  \/ SyncAgain
  \/ Next

SpecResync == ResyncInit /\ [][ResyncNext]_vars

\* ================================================================ backup.py
\* Names are sequences of units: single characters, and the pieces "01".."04",
\* "Nov", "2026", ".gdb.zip", ".zip", ".txt" that the code only handles whole.
Titles == { <<"a">>, <<"a", " ", "b">> }

\* sanitize_name: re.sub(r'[^A-Za-z0-9_]', '_', name)
sanitize_name(name) ==
  [i \in 1..Len(name) |-> IF name[i] \in AlphaNum \cup {"_"} THEN name[i] ELSE "_"]

DayText(d) == CASE d = 1 -> "01" [] d = 2 -> "02" [] d = 3 -> "03" [] OTHER -> "04"

\* strftime("%d_%b_%Y") of day d of the month of the run
strftime(d) == <<DayText(d), "_", "Nov", "_", "2026">>

\* strptime(date_str, '%d_%b_%Y'): the day, or 0 for ValueError
strptime(date_str) ==
  IF \E d \in 1..Today : date_str = strftime(d)
  THEN CHOOSE d \in 1..Today : date_str = strftime(d)
  ELSE 0

\* Datetimes in half days: day d at 00:00 is 2d, later on day d is 2d + 1.
Midnight(d) == 2 * d

\* dt.datetime.now() of the run
Now == Midnight(Today) + 1

\* item.modified of an item, as a datetime
Modifieds == {Midnight(d) + h : d \in 1..Today, h \in {0, 1}}

\* f"{base_name}.gdb.zip" with base_name = f"{sanitized_name}_{today_date}"
ArchiveName(sanitized, d) == sanitized \o <<"_">> \o strftime(d) \o <<".gdb.zip">>

\* Objects the backup bucket may hold when the run starts.
ArchiveCandidates ==
  {ArchiveName(sanitize_name(t), d) : t \in Titles, d \in 1..Today}
    \cup { <<"a", "_">> \o strftime(1) \o <<".zip">>,
           <<"r", ".gdb.zip">>,
           <<"a", "_">> \o strftime(1) \o <<".txt">> }

\* --remove_archives yes --duration d, or -1 for --remove_archives no
Durations == {-1, 0, 1}

EndsWith(name, piece) == Len(name) > 0 /\ name[Len(name)] = piece

\* get_last_modified_date: the latest date parsed from the names that contain
\* base_name, as a datetime; 0 for None
get_last_modified_date(objects, base_name) ==
  LET date_str(f) == Without(JoinWith(LastParts(SplitOn(f, "_"), 3), "_"), ".gdb.zip")
      days == {strptime(date_str(f)) : f \in {g \in objects : Contains(g, base_name)}} \ {0}
  IN IF days = {} THEN 0
     ELSE Midnight(CHOOSE d \in days : \A e \in days : e <= d)

\* Variant of SkipsItem: a strict comparison.
SkipsItemStrict(last_backup_date, item_modified_date) ==
  last_backup_date # 0 /\ item_modified_date < last_backup_date

\* line 134: if last_backup_date and item_modified_date <= last_backup_date
SkipsItem(last_backup_date, item_modified_date) ==
  last_backup_date # 0 /\ item_modified_date <= last_backup_date

\* Variant of RetriesLeft: attempt <= retries.
RetriesLeftInclusive(n, retries) == n <= retries

\* upload_with_retry, line 68: if attempt < retries
RetriesLeft(n, retries) == n < retries

\* Variant of PruneCondition: archives of the layers added in this run are kept.
PruneUnlessAdded(file_date, cutoff_date, layer_name, added) ==
  file_date < cutoff_date /\ layer_name \notin added

\* delete_old_archives, line 182
PruneCondition(file_date, cutoff_date, layer_name, added) ==
  file_date < cutoff_date /\ (layer_name \notin added \/ file_date < cutoff_date)

\* delete_old_archives, lines 166-188: whether blob.delete() is called for a name
DeletesArchive(filename, cutoff_date, added) ==
  IF ~(EndsWith(filename, ".gdb.zip") \/ EndsWith(filename, ".zip"))
  THEN FALSE
  ELSE LET name_parts == SplitOn(SubSeq(filename, 1, Len(filename) - 1), "_")
           layer_name == JoinWith(AllButLast(name_parts, 3), "_")
           day == strptime(JoinWith(LastParts(name_parts, 3), "_"))
       IN day # 0 /\ PruneCondition(Midnight(day), cutoff_date, layer_name, added)

\* delete_old_archives, line 162
Cutoff(days) == Now - 2 * days

\* agol_to_pg's generator is another process: nothing of it moves during a backup.
PipelineIdle ==
  /\ pc = "idle" /\ outcome = "running" /\ lines = {} /\ failedIn = "none" /\ faults = {}
  /\ max_record_count = MaxBatch
  /\ batch_size = 1 /\ layer = 0 /\ featTable = [exists |-> FALSE, rows |-> 0]
  /\ prep = NoPrep /\ start = 0 /\ total_imported = 0 /\ offsets = <<>>
  /\ converted = <<>> /\ loads = 0 /\ reported = -1
  /\ groups = <<>> /\ globalIdField = "null" /\ joins = <<>>
  /\ attTable = [exists |-> FALSE, rows |-> <<>>]
  /\ tempTable = <<>> /\ nextOid = 1 /\ a_start = 0 /\ a_total = 0 /\ a_offsets = <<>>
  /\ a_reported = -1
  /\ bucket = {} /\ listed = {} /\ blobs = {} /\ rowIdx = 0 /\ record_count = 0
  /\ rowLog = <<>> /\ deleted = {}
  /\ request = NoRequest /\ metadata = NoMetadata /\ parsed = NoArgs /\ invocations = <<>>
  /\ pass = 1 /\ first = NoFirst

BackupInit ==
  /\ PipelineIdle
  /\ ConverterIdle
  /\ ReverseIdle
  /\ NoRace
  /\ NoStream
  /\ b_pc = "items"
  /\ n_items \in 0..MaxItems
  /\ max_items \in 1..MaxItems
  /\ duration \in Durations
  /\ archives \in {A \in SUBSET ArchiveCandidates : Cardinality(A) <= 2}
  /\ count = 0
  /\ item = NoItem
  /\ added_files = <<>>
  /\ skipped_files = <<>>
  /\ attempt = 0
  /\ tries = <<>>
  /\ slept = 0
  /\ upload_result = "none"
  /\ listing = {}
  /\ pruned = {}
  /\ decisions = <<>>

\* Variant of AfterItemFailure: a failed item ends the run.
AfterItemFailureStops == "b_done"

\* download_as_fgdb, lines 150-155: a failed item is recorded inside the loop,
\* which goes on with the next item
AfterItemFailure == "items"

\* The entry of an item in the record of what was done.
Decided(it) == [title |-> it.title, decision |-> it.decision, cleaned |-> it.cleaned]

\* Variant of CleansUp: the export is removed whatever the upload returned.
CleansUpAlways(uploaded) == TRUE

\* lines 146-149: os.remove and result.delete are called in the branch of a
\* successful upload only
CleansUp(uploaded) == uploaded

\* download_as_fgdb, lines 119-144 and 153-155: one iteration of the item loop,
\* up to the call of upload_with_retry
BackupItem ==
  /\ b_pc = "items"
  /\ count < n_items /\ count < max_items
  /\ \E title \in Titles, modified \in Modifieds, exported \in BOOLEAN :
       LET last == get_last_modified_date(archives, sanitize_name(title))
           it == [title |-> title, modified |-> modified, last_backup |-> last,
                  decision |-> "none", exports |-> 0, exported |-> FALSE,
                  upload_calls |-> 0, cleaned |-> FALSE]
       IN IF SkipsItem(last, modified)
          THEN /\ item' = [it EXCEPT !.decision = "skipped"]
               /\ decisions' = Append(decisions, Decided(item'))
               /\ skipped_files' = Append(skipped_files, title)
               /\ count' = count + 1
               /\ UNCHANGED <<b_pc, attempt, tries, slept, upload_result>>
          ELSE IF ~exported
          THEN \* item.export() or result.download() raised
               /\ item' = [it EXCEPT !.decision = "failed", !.exports = 1]
               /\ decisions' = Append(decisions, Decided(item'))
               /\ skipped_files' = Append(skipped_files, title)
               /\ count' = count + 1
               /\ b_pc' = AfterItemFailure
               /\ UNCHANGED <<attempt, tries, slept, upload_result>>
          ELSE /\ item' = [it EXCEPT !.decision = "uploading", !.exports = 1,
                                     !.exported = TRUE, !.upload_calls = 1]
               /\ b_pc' = "upload"
               /\ attempt' = 1
               /\ tries' = <<>>
               /\ slept' = 0
               /\ upload_result' = "none"
               /\ UNCHANGED <<skipped_files, count, decisions>>
  /\ UNCHANGED <<n_items, max_items, duration, archives, added_files, listing, pruned>>
  /\ UNCHANGED <<pvars, cvars, rvars, xvars, wvars>>

\* upload_with_retry, lines 61-72: one iteration of the attempt loop, and on
\* its return lines 146-151 of download_as_fgdb
UploadAttempt ==
  /\ b_pc = "upload"
  /\ \E uploaded \in BOOLEAN, cleaned \in BOOLEAN :
       /\ tries' = Append(tries, uploaded)
       /\ uploaded \/ cleaned
       /\ IF uploaded
          THEN /\ archives' = archives \cup {ArchiveName(sanitize_name(item.title), Today)}
               /\ upload_result' = "True"
               /\ added_files' = Append(added_files, item.title)
               \* cleaned: os.remove and result.delete() were called and returned
               /\ item' = [item EXCEPT !.decision = "added",
                                        !.cleaned = CleansUp(uploaded) /\ cleaned]
               /\ decisions' = Append(decisions, Decided(item'))
               \* os.remove or result.delete() raised: the except clause of line 153
               /\ skipped_files' = IF cleaned THEN skipped_files
                                   ELSE Append(skipped_files, item.title)
               /\ count' = count + 1
               /\ b_pc' = "items"
               /\ UNCHANGED <<attempt, slept>>
          ELSE IF RetriesLeft(attempt, MAX_UPLOAD_RETRIES)
          THEN /\ slept' = slept + RETRY_DELAY_SECONDS
               /\ attempt' = attempt + 1
               /\ UNCHANGED <<archives, upload_result, added_files, skipped_files, item,
                              count, b_pc, decisions>>
          ELSE /\ upload_result' = "False"
               /\ skipped_files' = Append(skipped_files, item.title)
               /\ item' = [item EXCEPT !.decision = "upload_failed",
                                        !.cleaned = CleansUp(uploaded)]
               /\ decisions' = Append(decisions, Decided(item'))
               /\ count' = count + 1
               /\ b_pc' = AfterItemFailure
               /\ UNCHANGED <<archives, added_files, attempt, slept>>
  /\ UNCHANGED <<n_items, max_items, duration, listing, pruned>>
  /\ UNCHANGED <<pvars, cvars, rvars, xvars, wvars>>

\* download_as_fgdb, lines 119-122 and 157-158: the loop ends; main, line 224
FinishDownload ==
  /\ b_pc = "items"
  /\ count >= n_items \/ count >= max_items
  /\ b_pc' = IF duration >= 0 THEN "prune" ELSE "b_done"
  /\ UNCHANGED <<n_items, max_items, duration, archives, count, item, added_files,
                 skipped_files, attempt, tries, slept, upload_result, listing, pruned,
                 decisions>>
  /\ UNCHANGED <<pvars, cvars, rvars, xvars, wvars>>

\* delete_old_archives, lines 160-188
Prune ==
  /\ b_pc = "prune"
  /\ LET added == {sanitize_name(added_files[i]) : i \in 1..Len(added_files)}
         gone == {f \in archives : DeletesArchive(f, Cutoff(duration), added)}
     IN /\ listing' = archives
        /\ pruned' = gone
        /\ archives' = archives \ gone
  /\ b_pc' = "b_done"
  /\ UNCHANGED <<n_items, max_items, duration, count, item, added_files,
                 skipped_files, attempt, tries, slept, upload_result, decisions>>
  /\ UNCHANGED <<pvars, cvars, rvars, xvars, wvars>>

BackupNext ==
  \/ BackupItem
  \/ UploadAttempt
  \/ FinishDownload
  \/ Prune

SpecBackup == BackupInit /\ [][BackupNext]_vars

\* =================================== esri_to_geojson.py and pg_to_agol.py
Coordinates == {0, 1, 2}
Positions == { <<0, 0>>, <<1, 2>> }

RECURSIVE SeqsUpTo(_, _)
SeqsUpTo(S, n) ==
  IF n = 0 THEN { <<>> }
  ELSE LET shorter == SeqsUpTo(S, n - 1)
       IN shorter \cup {Append(q, e) : q \in {r \in shorter : Len(r) = n - 1}, e \in S}

\* A list of positions: the points of a multipoint, one path, one ring.
Parts == SeqsUpTo(Positions, MaxPositions)

\* The geometry a feature of a query response can carry.
NativeGeometries ==
  {[x |-> a, y |-> b] : a \in Coordinates, b \in Coordinates}
    \cup {[points |-> q] : q \in Parts}
    \cup {[paths |-> q] : q \in SeqsUpTo(Parts, MaxParts)}
    \cup {[rings |-> q] : q \in SeqsUpTo(Parts, MaxParts)}

\* Variant of OnePart: any non-empty list is taken as a single part.
AnyParts(parts) == Len(parts) >= 1

\* esri_to_geojson, lines 52 and 61: len(geom[...]) == 1
OnePart(parts) == Len(parts) = 1

\* esri_to_geojson, lines 27-67: the geometry of the feature it appends
esri_to_geojson(geom) ==
  IF geom = NoGeometry
  THEN [type |-> "", coordinates |-> <<>>]
  ELSE IF "x" \in DOMAIN geom /\ "y" \in DOMAIN geom
  THEN [type |-> "Point", coordinates |-> <<geom.x, geom.y>>]
  ELSE IF "points" \in DOMAIN geom
  THEN [type |-> "MultiPoint", coordinates |-> geom.points]
  ELSE IF "paths" \in DOMAIN geom
  THEN IF OnePart(geom.paths)
       THEN [type |-> "LineString", coordinates |-> geom.paths[1]]
       ELSE [type |-> "MultiLineString", coordinates |-> geom.paths]
  ELSE IF "rings" \in DOMAIN geom
  THEN IF OnePart(geom.rings)
       THEN [type |-> "Polygon", coordinates |-> geom.rings]
       ELSE [type |-> "MultiPolygon",
             coordinates |-> [i \in 1..Len(geom.rings) |-> <<geom.rings[i]>>]]
  ELSE [type |-> "", coordinates |-> <<>>]

\* str.upper() of the type names esri_to_geojson writes
Upper(type) ==
  CASE type = "Point" -> "POINT"
    [] type = "MultiPoint" -> "MULTIPOINT"
    [] type = "LineString" -> "LINESTRING"
    [] type = "MultiLineString" -> "MULTILINESTRING"
    [] type = "Polygon" -> "POLYGON"
    [] type = "MultiPolygon" -> "MULTIPOLYGON"
    [] OTHER -> type

\* convert_geojson_to_esri_geometry, lines 74-101; [raised |-> ...] for lines
\* 80 (the argument is None, neither str nor dict) and 99
convert_geojson_to_esri_geometry(geojson_dict) ==
  IF geojson_dict = NoGeometry THEN [raised |-> "TypeError"] ELSE
  LET geom_type == Upper(geojson_dict.type)
      coordinates == geojson_dict.coordinates
  IN CASE geom_type = "POINT" -> [x |-> coordinates[1], y |-> coordinates[2]]
       [] geom_type = "MULTIPOINT" -> [points |-> coordinates]
       [] geom_type = "LINESTRING" -> [paths |-> <<coordinates>>]
       [] geom_type = "MULTILINESTRING" -> [paths |-> coordinates]
       [] geom_type = "POLYGON" -> [rings |-> coordinates]
       [] geom_type = "MULTIPOLYGON" -> [rings |-> Flatten(coordinates)]
       [] OTHER -> [raised |-> "ValueError"]

ConverterInit ==
  /\ PipelineIdle
  /\ BackupIdle
  /\ ReverseIdle
  /\ NoRace
  /\ NoStream
  /\ \/ \* a feature of the service, with or without geometry
        /\ g_pc = "native"
        /\ g_native \in NativeGeometries \cup {NoGeometry}
     \/ \* a row of the table whose geometry is NULL: ST_AsGeoJSON gives None
        /\ g_pc = "geojson"
        /\ g_native = NoGeometry
  /\ g_geojson = NoGeometry
  /\ g_esri = NoGeometry

\* esri_to_geojson on the feature
ToGeoJson ==
  /\ g_pc = "native"
  /\ g_geojson' = esri_to_geojson(g_native)
  /\ g_pc' = "geojson"
  /\ UNCHANGED <<g_native, g_esri, pvars, bvars, rvars, xvars, wvars>>

\* convert_geojson_to_esri_geometry on that feature's geometry
ToEsri ==
  /\ g_pc = "geojson"
  /\ g_esri' = convert_geojson_to_esri_geometry(g_geojson)
  /\ g_pc' = "esri"
  /\ UNCHANGED <<g_native, g_geojson, pvars, bvars, rvars, xvars, wvars>>

ConverterNext ==
  \/ ToGeoJson
  \/ ToEsri

SpecGeom == ConverterInit /\ [][ConverterNext]_vars

\* ============================================================ pg_to_agol.py
\* The tables a transfer may read: their columns besides the geometry column,
\* and the column of their primary key.
TableSchemas ==
  { [columns |-> {"objectid", "name"}, pk |-> "objectid"],
    [columns |-> {"OBJECTID", "name"}, pk |-> "OBJECTID"],
    [columns |-> {"gid", "name"}, pk |-> "gid"] }

\* --ignore, split at commas
IgnoreLists == { {}, {"name"}, {"gid"} }

\* str.lower() of a column name
Lower(name) == IF name = "OBJECTID" THEN "objectid" ELSE name

\* Variant of TruncateRequested: the flag is not read.
TruncateNeverRequested(arg) == FALSE

\* line 382: if args.truncate.lower() == 'yes'
TruncateRequested(arg) == arg = "yes"

\* fetch_data_from_postgis, lines 188-201: the keys of every feature's attributes
FetchedColumns(columns, ignore) == columns \ ignore

\* prepare_features, line 150
PreparedAttributes(attributes, ignore_fields) ==
  {k \in attributes : Lower(k) # "objectid" /\ k \notin ignore_fields}

\* Variant of BatchEnd: the slice stops one feature early.
BatchEndShort(from, size) == from + size - 1

\* append_features, line 238: end = start + batch_size
BatchEnd(from, size) == from + size

\* append_features, line 239: features[start:end]
BatchSlice(features, from, to) == SubSeq(features, from + 1, Min(to, Len(features)))

ReverseInit ==
  /\ PipelineIdle
  /\ BackupIdle
  /\ ConverterIdle
  /\ NoRace
  /\ NoStream
  /\ r_pc = "token"
  /\ args \in [truncate : {"yes", "no"}, batch : 1..MaxBatch, ignore : IgnoreLists]
  /\ \E n \in 0..MaxFeatures, schema \in TableSchemas :
       pg_table = [rows |-> n, columns |-> schema.columns, pk |-> schema.pk]
  /\ remote_layer \in { [exists |-> FALSE, features |-> <<>>],
                        [exists |-> TRUE, features |-> <<>>],
                        [exists |-> TRUE, features |-> <<0>>] }
  /\ held_before = remote_layer.features
  /\ token = "none"
  /\ remote_calls = <<>>
  /\ prepared_features = NoFeatures
  /\ r_start = 0

\* Variant of ProceedsWithToken: main goes on whatever get_token returned.
ProceedsAlways(tok) == TRUE

\* main, lines 371-373: if not token: return
ProceedsWithToken(tok) == tok # "None"

\* main, lines 370-380: get_token, then get_feature_layer
ReverseToken ==
  /\ r_pc = "token"
  /\ \E granted \in BOOLEAN :
       /\ token' = IF granted THEN "ok" ELSE "None"
       /\ r_pc' = IF ProceedsWithToken(token') THEN "truncate" ELSE "r_done"
  /\ UNCHANGED <<args, held_before, pg_table, remote_layer, remote_calls, prepared_features, r_start>>
  /\ UNCHANGED <<pvars, bvars, cvars, xvars, wvars>>

\* main, lines 382-386, with delete_all_features, lines 343-349
ReverseTruncate ==
  /\ r_pc = "truncate"
  /\ IF TruncateRequested(args.truncate)
     THEN \E answered \in BOOLEAN :
            LET ok == answered /\ remote_layer.exists
            IN /\ remote_calls' = Append(remote_calls,
                                         [op |-> "delete", where |-> "1=1", ids |-> <<>>,
                                          attributes |-> {}, ok |-> ok])
               /\ remote_layer' = IF ok THEN [remote_layer EXCEPT !.features = <<>>]
                                  ELSE remote_layer
     ELSE UNCHANGED <<remote_calls, remote_layer>>
  /\ r_pc' = "fetch"
  /\ UNCHANGED <<args, held_before, pg_table, token, prepared_features, r_start>>
  /\ UNCHANGED <<pvars, bvars, cvars, xvars, wvars>>

\* main, lines 388-389: fetch_data_from_postgis (181-208), prepare_features (144-158)
ReverseFetch ==
  /\ r_pc = "fetch"
  /\ \E answered \in BOOLEAN :
       \* cursor.fetchone()[0] of line 186 raises on an empty table
       IF ~answered \/ pg_table.rows = 0
       THEN /\ r_pc' = "r_done"
            /\ UNCHANGED <<prepared_features, r_start>>
       ELSE /\ prepared_features' =
                 [ids |-> [i \in 1..pg_table.rows |-> i],
                  attributes |-> PreparedAttributes(
                                   FetchedColumns(pg_table.columns, args.ignore),
                                   args.ignore)]
            /\ r_start' = 0
            /\ r_pc' = "append"
  /\ UNCHANGED <<args, held_before, pg_table, remote_layer, token, remote_calls>>
  /\ UNCHANGED <<pvars, bvars, cvars, xvars, wvars>>

\* append_features, lines 237-248: one iteration of the batch loop
ReverseBatch ==
  /\ r_pc = "append"
  /\ r_start < Len(prepared_features.ids)
  /\ \E answered \in BOOLEAN :
       LET batch_features == BatchSlice(prepared_features.ids, r_start,
                                        BatchEnd(r_start, args.batch))
           ok == answered /\ remote_layer.exists
       IN /\ remote_calls' = Append(remote_calls,
                                    [op |-> "edit", where |-> "", ids |-> batch_features,
                                     attributes |-> prepared_features.attributes, ok |-> ok])
          /\ remote_layer' = IF ok
                             THEN [remote_layer EXCEPT !.features = @ \o batch_features]
                             ELSE remote_layer
  /\ r_start' = r_start + args.batch
  /\ r_pc' = IF r_start + args.batch < Len(prepared_features.ids) THEN "append" ELSE "r_done"
  /\ UNCHANGED <<args, held_before, pg_table, token, prepared_features>>
  /\ UNCHANGED <<pvars, bvars, cvars, xvars, wvars>>

ReverseNext ==
  \/ ReverseToken
  \/ ReverseTruncate
  \/ ReverseFetch
  \/ ReverseBatch

SpecReverse == ReverseInit /\ [][ReverseNext]_vars

\* ======================================================= concurrent runs
\* Two runs of the attachment phases (download_attachments, then
\* transfer_attachments) against the same {table}_attach and the same bucket
\* prefix. Each run has its own connection in autocommit mode (lines 787-788),
\* so every statement is a step of its own; the table, its sequence and the
\* bucket are shared, the blobs dict and the fetched rows are the run's own.

\* The row and the object an earlier run left for attachment 1.
EarlierRow == [objectid |-> 1, attachmentid |-> "1", name |-> <<"a", "_", "b", ".", "j">>,
               url |-> CanonicalUrl(<<"T", "/", "1", ".", "j">>)]

\* Objects under the table's prefix, in the order list_blobs names them.
RaceObjects == << <<"T", "/", "1", ".", "j">>, <<"T", "/", "9", ".", "j">> >>

\* The service's answers: at most MaxRaceAttachments attachments in all.
RaceGroups == {g \in ServiceGroups : Len(Flatten(g)) <= MaxRaceAttachments}

OtherRun(r) == CHOOSE q \in Runs : q # r

UnderWay(q) == run_pc[q] \notin {"ready", "done", "failed"}

\* line 711: blobs.values() walks the dict in insertion order, the listing's.
FirstListed(dict) ==
  RaceObjects[CHOOSE i \in 1..Len(RaceObjects) :
                /\ RaceObjects[i] \in dict
                /\ \A j \in 1..(i - 1) : RaceObjects[j] \notin dict]

\* Variant of ListedNow: the listing names nothing.
ListedNothing(objects) == {}

\* lines 662-663: the names under the prefix at the moment of the call
ListedNow(objects) == ListBlobs(objects, table)

RaceInit ==
  /\ BackupIdle
  /\ ConverterIdle
  /\ ReverseIdle
  /\ NoStream
  /\ pc = "idle" /\ outcome = "running" /\ lines = {} /\ failedIn = "none" /\ faults = {}
  /\ max_record_count = MaxBatch
  /\ batch_size = MaxRaceAttachments + 1 /\ layer = 0
  /\ featTable = [exists |-> TRUE, rows |-> 0]
  /\ prep = NoPrep /\ start = 0 /\ total_imported = 0 /\ offsets = <<>>
  /\ converted = <<>> /\ loads = 0 /\ reported = -1
  /\ groups \in RaceGroups /\ globalIdField = "GlobalID" /\ joins = <<>>
  /\ attTable \in {[exists |-> TRUE, rows |-> <<>>], [exists |-> TRUE, rows |-> <<EarlierRow>>]}
  /\ nextOid = Len(attTable.rows) + 1
  /\ tempTable = <<>> /\ a_start = 0 /\ a_total = 0 /\ a_offsets = <<>> /\ a_reported = -1
  /\ bucket \in {b \in SUBSET {RaceObjects[i] : i \in 1..Len(RaceObjects)} :
                   \A k \in 1..Len(attTable.rows) : attTable.rows[k].url.path \in b}
  /\ listed = {} /\ blobs = {} /\ rowIdx = 0 /\ record_count = 0
  /\ rowLog = <<>> /\ deleted = {}
  /\ request = NoRequest /\ metadata = NoMetadata /\ parsed = NoArgs /\ invocations = <<>>
  /\ pass = 1 /\ first = NoFirst
  /\ run_pc = [r \in Runs |-> "ready"]
  /\ run_blobs = [r \in Runs |-> {}]
  /\ run_rows = [r \in Runs |-> <<>>]
  /\ run_idx = [r \in Runs |-> 0]
  /\ uploads = {}
  /\ deletions = {}
  /\ overlapped = FALSE

\* What a step of run r leaves alone, and the note that the other run is under way.
RaceStep(r) ==
  /\ overlapped' = (overlapped \/ UnderWay(OtherRun(r)))
  /\ UNCHANGED <<pc, outcome, lines, failedIn, faults, fvars, groups, globalIdField, joins,
                 tempTable, a_start, a_total, a_offsets, a_reported, listed, blobs,
                 rowIdx, record_count, rowLog, deleted>>
  /\ UNCHANGED <<bvars, cvars, rvars, qvars, evars, wvars>>

\* download_attachments, lines 486-493: the table exists and is emptied
RaceTruncate(r) ==
  /\ run_pc[r] = "ready"
  /\ \E t \in TruncateOutcomes(FALSE), d \in DeleteOutcomes :
       LET res == truncate_or_delete_table(t, d, TRUE)
       IN /\ attTable' = IF res.cleared THEN [attTable EXCEPT !.rows = <<>>] ELSE attTable
          /\ nextOid' = IF res.restarted THEN 1 ELSE nextOid
          /\ run_pc' = [run_pc EXCEPT ![r] = IF res.raised THEN "failed" ELSE "insert"]
  /\ UNCHANGED <<bucket, run_blobs, run_rows, run_idx, uploads, deletions>>
  /\ RaceStep(r)

\* download_attachments, lines 518-622: the one page the service answers with
\* is merged into the table by a single INSERT ... SELECT
RaceInsert(r) ==
  /\ run_pc[r] = "insert"
  /\ LET staging == Records(AttachmentPage(groups, 0, batch_size))
     IN /\ attTable' = [attTable EXCEPT !.rows = MergeStaging(attTable.rows, staging, nextOid)]
        /\ nextOid' = nextOid + Len(staging)
  /\ run_pc' = [run_pc EXCEPT ![r] = "list"]
  /\ UNCHANGED <<bucket, run_blobs, run_rows, run_idx, uploads, deletions>>
  /\ RaceStep(r)

\* transfer_attachments, lines 662-663: blobs = {blob.name: blob ...}
RaceList(r) ==
  /\ run_pc[r] = "list"
  /\ run_blobs' = [run_blobs EXCEPT ![r] = ListedNow(bucket)]
  /\ run_pc' = [run_pc EXCEPT ![r] = "select"]
  /\ UNCHANGED <<attTable, nextOid, bucket, run_rows, run_idx, uploads, deletions>>
  /\ RaceStep(r)

\* transfer_attachments, lines 670-674: the SELECT hands the run the rows the
\* table holds at that moment
RaceSelect(r) ==
  /\ run_pc[r] = "select"
  /\ run_rows' = [run_rows EXCEPT ![r] = attTable.rows]
  /\ run_idx' = [run_idx EXCEPT ![r] = 1]
  /\ run_pc' = [run_pc EXCEPT ![r] = IF attTable.rows = <<>> THEN "orphans" ELSE "rows"]
  /\ UNCHANGED <<attTable, nextOid, bucket, run_blobs, uploads, deletions>>
  /\ RaceStep(r)

\* transfer_attachments, lines 675-704: one fetched row
RaceRow(r) ==
  /\ run_pc[r] = "rows"
  /\ \E streamed \in BOOLEAN :
       LET row == run_rows[r][run_idx[r]]
           target == Target(row)
           found == target \in run_blobs[r]
       IN /\ run_blobs' = [run_blobs EXCEPT ![r] = BlobsAfterLookup(@, target)]
          /\ IF ~found /\ ~streamed
             THEN \* _stream_to_gcs raised: lines 705-709 and 721-724
                  /\ run_pc' = [run_pc EXCEPT ![r] = "failed"]
                  /\ UNCHANGED <<attTable, bucket, run_idx, uploads>>
             ELSE /\ bucket' = IF found THEN bucket ELSE bucket \cup {target}
                  /\ uploads' = IF found THEN uploads
                                ELSE uploads \cup {[run |-> r, target |-> target]}
                  \* lines 696-702: UPDATE ... WHERE objectid = {objectid}
                  /\ attTable' =
                       [attTable EXCEPT !.rows =
                          [k \in 1..Len(@) |->
                             IF @[k].objectid = row.objectid
                             THEN [@[k] EXCEPT !.url = CanonicalUrl(target),
                                               !.name = SanitizedName(row)]
                             ELSE @[k]]]
                  /\ run_idx' = [run_idx EXCEPT ![r] = @ + 1]
                  /\ run_pc' = [run_pc EXCEPT ![r] =
                                  IF run_idx[r] = Len(run_rows[r]) THEN "orphans" ELSE "rows"]
  /\ UNCHANGED <<nextOid, run_rows, deletions>>
  /\ RaceStep(r)

\* transfer_attachments, lines 711-719: one blob.delete() of the orphan loop;
\* deleting an object that is no longer there raises NotFound
RaceOrphan(r) ==
  /\ run_pc[r] = "orphans"
  /\ IF run_blobs[r] = {}
     THEN /\ run_pc' = [run_pc EXCEPT ![r] = "done"]
          /\ UNCHANGED <<bucket, run_blobs, deletions>>
     ELSE LET o == FirstListed(run_blobs[r])
          IN IF o \in bucket
             THEN /\ bucket' = bucket \ {o}
                  /\ deletions' = deletions \cup {[run |-> r, target |-> o]}
                  /\ run_blobs' = [run_blobs EXCEPT ![r] = @ \ {o}]
                  /\ UNCHANGED run_pc
             ELSE /\ run_pc' = [run_pc EXCEPT ![r] = "failed"]
                  /\ UNCHANGED <<bucket, run_blobs, deletions>>
  /\ UNCHANGED <<attTable, nextOid, run_rows, run_idx, uploads>>
  /\ RaceStep(r)

RaceNext ==
  \/ \E r \in Runs : RaceTruncate(r)
  \/ \E r \in Runs : RaceInsert(r)
  \/ \E r \in Runs : RaceList(r)
  \/ \E r \in Runs : RaceSelect(r)
  \/ \E r \in Runs : RaceRow(r)
  \/ \E r \in Runs : RaceOrphan(r)

SpecRace == RaceInit /\ [][RaceNext]_vars

\* ==================================================== progress streaming
\* generate() of the routes of app.py: the child is started with both stdout
\* and stderr piped, and the loop reads one line of each in turn. A pipe holds
\* at most PipeCapacity lines: a write to a full pipe blocks the child, a
\* readline on an empty pipe blocks the loop until a line arrives or the
\* child's end of the pipe is closed.

\* What the child writes before it exits: at most MaxLines lines, each to
\* stdout or to stderr.
ChildScripts == UNION {[1..n -> {"out", "err"}] : n \in 0..MaxLines}

StreamInit ==
  /\ PipelineIdle
  /\ BackupIdle
  /\ ConverterIdle
  /\ ReverseIdle
  /\ NoRace
  /\ child_script \in ChildScripts
  /\ child_alive = TRUE
  /\ out_pipe = 0
  /\ err_pipe = 0
  /\ gen_pc = "stdout"
  /\ output = "none"
  /\ forwarded = [out |-> 0, err |-> 0]

\* The child writes its next line; the write returns only if the pipe has room.
ChildWrite ==
  /\ child_alive
  /\ child_script # <<>>
  /\ IF Head(child_script) = "out"
     THEN /\ out_pipe < PipeCapacity
          /\ out_pipe' = out_pipe + 1
          /\ UNCHANGED err_pipe
     ELSE /\ err_pipe < PipeCapacity
          /\ err_pipe' = err_pipe + 1
          /\ UNCHANGED out_pipe
  /\ child_script' = Tail(child_script)
  /\ UNCHANGED <<child_alive, gen_pc, output, forwarded>>
  /\ UNCHANGED <<pvars, bvars, cvars, rvars, xvars>>

\* The child has written everything and exits, closing its ends of the pipes.
ChildExit ==
  /\ child_alive
  /\ child_script = <<>>
  /\ child_alive' = FALSE
  /\ UNCHANGED <<child_script, out_pipe, err_pipe, gen_pc, output, forwarded>>
  /\ UNCHANGED <<pvars, bvars, cvars, rvars, xvars>>

\* readline() returns a line when one is waiting and '' at end of file, when
\* the writer has closed the pipe; otherwise it has not returned yet.
ReadlineReturns(waiting, writer_alive) == waiting > 0 \/ ~writer_alive

\* src/app.py lines 119-121 (and 239-241): output = process.stdout.readline()
ReadStdout ==
  /\ gen_pc = "stdout"
  /\ ReadlineReturns(out_pipe, child_alive)
  /\ IF out_pipe > 0
     THEN /\ out_pipe' = out_pipe - 1
          /\ output' = "line"
          /\ forwarded' = [forwarded EXCEPT !.out = @ + 1]
     ELSE /\ output' = ""
          /\ UNCHANGED <<out_pipe, forwarded>>
  /\ gen_pc' = "stderr"
  /\ UNCHANGED <<child_script, child_alive, err_pipe>>
  /\ UNCHANGED <<pvars, bvars, cvars, rvars, xvars>>

\* src/app.py lines 122-124 (and 242-244): err = process.stderr.readline()
ReadStderr ==
  /\ gen_pc = "stderr"
  /\ ReadlineReturns(err_pipe, child_alive)
  /\ IF err_pipe > 0
     THEN /\ err_pipe' = err_pipe - 1
          /\ forwarded' = [forwarded EXCEPT !.err = @ + 1]
     ELSE UNCHANGED <<err_pipe, forwarded>>
  /\ gen_pc' = "poll"
  /\ UNCHANGED <<child_script, child_alive, out_pipe, output>>
  /\ UNCHANGED <<pvars, bvars, cvars, rvars, xvars>>

\* src/app.py lines 125-126 (and 245-246): if output == '' and
\* process.poll() is not None: break
PollChild ==
  /\ gen_pc = "poll"
  /\ gen_pc' = IF output = "" /\ ~child_alive THEN "g_done" ELSE "stdout"
  /\ UNCHANGED <<child_script, child_alive, out_pipe, err_pipe, output, forwarded>>
  /\ UNCHANGED <<pvars, bvars, cvars, rvars, xvars>>

StreamNext ==
  \/ ChildWrite
  \/ ChildExit
  \/ ReadStdout
  \/ ReadStderr
  \/ PollChild

SpecStream == StreamInit /\ [][StreamNext]_vars

\* ============================================== a service with a page cap
\* The pipeline against a service that returns at most max_record_count
\* features per query, whatever resultRecordCount asks for.
CapInit ==
  /\ BackupIdle
  /\ ConverterIdle
  /\ ReverseIdle
  /\ NoRace
  /\ NoStream
  /\ pc = "start" /\ outcome = "running" /\ lines = {} /\ failedIn = "none" /\ faults = {}
  /\ batch_size \in 1..MaxBatch
  /\ max_record_count \in 1..MaxBatch
  /\ layer \in 0..MaxFeatures
  /\ featTable \in {[exists |-> FALSE, rows |-> 0], [exists |-> TRUE, rows |-> 1]}
  /\ prep = NoPrep /\ start = 0 /\ total_imported = 0 /\ offsets = <<>>
  /\ converted = <<>> /\ loads = 0 /\ reported = -1
  /\ groups \in {g \in ServiceGroups : Len(Flatten(g)) <= 1}
  /\ globalIdField = "GlobalID" /\ joins = <<>>
  /\ attTable = [exists |-> FALSE, rows |-> <<>>]
  /\ tempTable = <<>> /\ nextOid = 1 /\ a_start = 0 /\ a_total = 0 /\ a_offsets = <<>>
  /\ a_reported = -1
  /\ bucket \in SUBSET {<<"T", "/", "9", ".", "j">>}
  /\ listed = {} /\ blobs = {} /\ rowIdx = 0 /\ record_count = 0
  /\ rowLog = <<>> /\ deleted = {}
  /\ request = PolygonRequest
  /\ metadata = PolygonMetadata
  /\ parsed = parse_args(PolygonRequest, PolygonMetadata, "ok", "ok")
  /\ invocations = <<>>
  /\ pass = 1 /\ first = NoFirst

SpecCap == CapInit /\ [][Next]_vars

\* ================================================================ claims
\* The layer, cut into pages of batch_size, ends in a non-empty short page.
EndsInShortPage == layer % batch_size # 0

FeaturesPhaseOver == pc \notin {"start", "features_start", "features_loop"}

\* C1 (as claimed): for a source returning k-1 full pages and then one non-empty
\* short page, with no failure of the service, the database or the loader,
\* download_features issues exactly k fetches and reports the sum of the page
\* sizes as its total.
C1_ExactFetchesAndTotal ==
  (FeaturesPhaseOver /\ EndsInShortPage /\ faults = {})
    => (Len(offsets) = (layer \div batch_size) + 1 /\ reported = layer)

DeleteCount(log) == Cardinality({i \in 1..Len(log) : log[i] = "DELETE"})

\* C3 (as claimed): a TRUNCATE failing on a foreign-key reference is followed by
\* exactly one DELETE and the call returns; any other TRUNCATE failure issues
\* no DELETE and propagates.
C3_FallbackAlwaysReturns ==
  prep.called =>
    /\ prep.truncate = FkTruncateError => (DeleteCount(prep.log) = 1 /\ ~prep.raised)
    /\ prep.truncate \notin {SqlOk, FkTruncateError} =>
         (DeleteCount(prep.log) = 0 /\ prep.raised)

\* C3 (amended): a TRUNCATE failing on a foreign-key reference is followed by
\* exactly one DELETE, and the call returns exactly when that DELETE succeeds
\* (the DELETE's error propagates otherwise); any other TRUNCATE failure issues
\* no DELETE and propagates.
C3_FallbackReturnsIfDeleteSucceeds ==
  prep.called =>
    /\ prep.truncate = FkTruncateError =>
         (DeleteCount(prep.log) = 1 /\ (prep.raised <=> prep.delete # SqlOk))
    /\ prep.truncate \notin {SqlOk, FkTruncateError} =>
         (DeleteCount(prep.log) = 0 /\ prep.raised)
    /\ prep.truncate = SqlOk => (DeleteCount(prep.log) = 0 /\ ~prep.raised)

\* The foreign-key failure was answered by one DELETE and the phase went on.
C3_Witness ==
  /\ prep.called
  /\ prep.truncate = FkTruncateError
  /\ prep.log = <<"TRUNCATE", "DELETE">>
  /\ ~prep.raised
  /\ pc = "attachments_loop"

\* C4: once the fetch, the conversion or the load of page n has failed, the
\* download_features error line has been yielded, the run is over, page n was
\* fetched once and nothing after it, the table holds the rows of pages
\* 1..n-1, and neither download_attachments nor transfer_attachments ran.
C4_FeatureFailureAborts ==
  (failedIn = "download_features" /\ offsets # <<>>) =>
    /\ PhaseErrorLine("download_features") \in lines
    /\ pc = "done" /\ outcome = "error"
    /\ loads = Len(offsets) - 1
    /\ featTable.rows = SeqSum(SubSeq(converted, 1, loads))
    /\ reported = -1
    /\ a_offsets = <<>> /\ tempTable = <<>> /\ a_reported = -1
    /\ "Starting download attachment records" \notin lines
    /\ "Starting transfer attachments" \notin lines
    /\ listed = {} /\ rowLog = <<>> /\ deleted = {}

\* The fetch of the first page failed and the run ended.
C4_Witness ==
  /\ failedIn = "download_features"
  /\ Len(offsets) = 1
  /\ faults = {"fetch"}
  /\ pc = "done"

SyncCompleted == "Finished transferring attachments" \in lines

\* C5 (as claimed): a row whose expected object is in the bucket when the row
\* is processed gets no upload, and its URL and name are rewritten.
C5_NoUploadWhenObjectExists ==
  \A i \in 1..Len(rowLog) :
    rowLog[i].existed =>
      /\ ~rowLog[i].uploaded
      /\ rowLog[i].updated
      /\ \E r \in 1..Len(attTable.rows) :
           /\ attTable.rows[r].objectid = rowLog[i].objectid
           /\ attTable.rows[r].url = CanonicalUrl(rowLog[i].target)

\* C6: after a sync that processed every row without error, the deleted
\* objects are exactly the listed ones that are no row's expected object, and
\* every listed object matched to a row is still in the bucket.
C6_OrphansExactlyDeleted ==
  SyncCompleted =>
    LET expected == {rowLog[i].target : i \in 1..Len(rowLog)}
    IN /\ Len(rowLog) = Len(attTable.rows)
       /\ deleted = listed \ expected
       /\ \A o \in listed \cap expected : o \in bucket
       /\ \A o \in deleted : o \notin bucket

\* A completed sync deleted an orphan and kept an object matched by a row.
C6_Witness ==
  /\ SyncCompleted
  /\ deleted # {}
  /\ \E i \in 1..Len(rowLog) : rowLog[i].target \in listed /\ rowLog[i].target \in bucket

\* ---- C7
\* The attempt loop of upload_with_retry is over.
UploadReturned == upload_result # "none"

\* C7: upload_with_retry makes no attempt after a success; it returns True
\* exactly when its last attempt succeeded and False only after
\* MAX_UPLOAD_RETRIES failed attempts; it has waited RETRY_DELAY_SECONDS once
\* between every two consecutive attempts (so fail, fail, success is True after
\* 3 attempts and 2 waits).
C7_RetryUntilSuccessOrLimit ==
  /\ Len(tries) <= MAX_UPLOAD_RETRIES
  /\ \A i \in 1..(Len(tries) - 1) : ~tries[i]
  /\ b_pc = "upload" =>
       /\ upload_result = "none"
       /\ \A i \in 1..Len(tries) : ~tries[i]
       /\ slept = Len(tries) * RETRY_DELAY_SECONDS
  /\ UploadReturned =>
       /\ Len(tries) >= 1
       /\ slept = (Len(tries) - 1) * RETRY_DELAY_SECONDS
       /\ upload_result = "True" <=> tries[Len(tries)]
       /\ upload_result = "False" <=>
            (Len(tries) = MAX_UPLOAD_RETRIES /\ \A i \in 1..Len(tries) : ~tries[i])
       /\ tries = <<FALSE, FALSE, TRUE>> => upload_result = "True" /\ slept = 2 * RETRY_DELAY_SECONDS

\* An upload failed twice and then succeeded.
C7_Witness ==
  /\ upload_result = "True"
  /\ tries = <<FALSE, FALSE, TRUE>>
  /\ slept = 2 * RETRY_DELAY_SECONDS

\* ---- C8
\* The iteration of download_as_fgdb for `item` is over.
ItemHandled == item # NoItem /\ b_pc # "upload"

\* The item is not newer than the latest archive date parsed for its name.
NotNewerThanArchive == item.last_backup # 0 /\ item.modified <= item.last_backup

C9_GeometryRoundTrip ==
  (g_pc = "esri" /\ g_native # NoGeometry) => g_esri = g_native

\* A geometry of several rings went through MultiPolygon and came back.
C9_Witness ==
  /\ g_pc = "esri"
  /\ g_geojson # NoGeometry
  /\ g_geojson.type = "MultiPolygon"
  /\ Len(g_geojson.coordinates) = 2
  /\ g_esri = g_native

\* ---- C10
\* The name is <something, or nothing>_<day d as %d_%b_%Y><.gdb.zip or .zip>.
DatedArchive(name, d) ==
  /\ Len(name) >= 6
  /\ name[Len(name)] \in {".gdb.zip", ".zip"}
  /\ SubSeq(name, Len(name) - 5, Len(name) - 1) = strftime(d)
  /\ Len(name) = 6 \/ name[Len(name) - 6] = "_"

\* C10: delete_old_archives deletes a listed object exactly when its name ends
\* in .gdb.zip or .zip, carries a date that parses, and that date is strictly
\* before now minus the retention days, whatever this run added; every other
\* listed object stays in the bucket.
C10_PrunedIffOlderThanCutoff ==
  (b_pc = "b_done" /\ duration >= 0) =>
    \A name \in listing :
      /\ name \in pruned <=>
           \E d \in 1..Today : DatedArchive(name, d) /\ Midnight(d) < Now - 2 * duration
      /\ name \in pruned <=> name \notin archives

\* An old archive of a layer added in this run was deleted and a dated archive
\* not older than the cutoff was kept.
C10_Witness ==
  /\ b_pc = "b_done"
  /\ duration >= 0
  /\ \E name \in pruned : \E i \in 1..Len(added_files) :
       StartsWith(name, added_files[i] \o <<"_">>)
  /\ \E name \in listing \ pruned : \E d \in 1..Today : DatedArchive(name, d)
  /\ \E name \in listing \ pruned : \A d \in 1..Today : ~DatedArchive(name, d)

\* ---- C11
\* Positions in remote_calls of the delete requests and of the edit submissions.
DeleteCalls == {i \in 1..Len(remote_calls) : remote_calls[i].op = "delete"}

EditCalls == {i \in 1..Len(remote_calls) : remote_calls[i].op = "edit"}

\* The run got its token, so it went on to the layer.
PastToken == r_pc \in {"fetch", "append"} \/ (r_pc = "r_done" /\ token = "ok")

\* C11: with truncate requested, a run that got its token has issued exactly
\* one delete, with filter 1=1, and it precedes every edit submission; without
\* truncate no delete is ever issued.
C11_DeleteOnceBeforeEdits ==
  /\ Cardinality(DeleteCalls) <= 1
  /\ \A i \in DeleteCalls :
       /\ remote_calls[i].where = "1=1"
       /\ \A j \in EditCalls : i < j
  /\ (args.truncate = "yes" /\ PastToken) => Cardinality(DeleteCalls) = 1
  /\ args.truncate = "no" => DeleteCalls = {}

\* A truncating run deleted first and then submitted two batches.
C11_Witness ==
  /\ r_pc = "r_done"
  /\ args.truncate = "yes"
  /\ Len(remote_calls) >= 3
  /\ remote_calls[1].op = "delete"
  /\ remote_calls[2].op = "edit"

\* ---- C12
\* The edit submissions so far, in order.
Submissions == SelectSeq(remote_calls, LAMBDA c : c.op = "edit")

\* The features of all submissions so far, in order.
Submitted == Flatten([i \in 1..Len(Submissions) |-> Submissions[i].ids])

\* C12: append_features submits the features in order, each in exactly one
\* batch: while it runs the submissions hold exactly the features before
\* start, and when it has returned there were ceil(n/b) submissions holding
\* the n features in their original order, whichever submissions failed.
C12_EveryFeatureInOneBatch ==
  LET n == Len(prepared_features.ids)
      b == args.batch
  IN /\ r_pc = "append" =>
          /\ Len(Submissions) * b = r_start
          /\ Submitted = SubSeq(prepared_features.ids, 1, r_start)
     /\ (r_pc = "r_done" /\ n > 0) =>
          /\ Len(Submissions) = (n + b - 1) \div b
          /\ Submitted = prepared_features.ids
          /\ \A i \in 1..Len(Submissions) : Len(Submissions[i].ids) \in 1..b

\* Three features went out in two batches although the first submission failed.
C12_Witness ==
  /\ r_pc = "r_done"
  /\ Len(prepared_features.ids) = 3
  /\ args.batch = 2
  /\ Len(Submissions) = 2
  /\ ~Submissions[1].ok
  /\ Submissions[2].ok

\* ---- C13
\* C13 (as claimed): no edit submission carries the attribute of the table's
\* primary key column, whatever that column is called.
C13_PrimaryKeyNeverSent ==
  \A i \in EditCalls : pg_table.pk \notin remote_calls[i].attributes

\* ---- C14
\* C14 (as claimed): edits are only submitted to a layer that exists, a layer
\* missing at the start having been created by the run before its first edit.
C14_MissingLayerCreatedFirst ==
  EditCalls # {} =>
    \/ remote_layer.exists
    \/ \E i \in 1..Len(remote_calls) :
         remote_calls[i].op = "create" /\ \A j \in EditCalls : i < j

\* ---- C15
\* An attachment-page fetch of this run was answered with a non-200 status.
AttachFetchFailed == "fetch" \in faults /\ a_offsets # <<>>

\* C15 (as claimed): after a non-200 answer to an attachment-page fetch the
\* run has raised out of download_attachments and reports no total.
C15_AttachFetchFailureAborts ==
  AttachFetchFailed =>
    /\ failedIn = "download_attachments"
    /\ a_reported = -1
    /\ outcome # "finished"

\* ---- C16
\* A feature-page fetch of this run was answered with a non-200 status.
FeatureFetchFailed == "fetch" \in faults /\ a_offsets = <<>>

\* The last feature page fetched came back with status 200 and no features:
\* the offset was at or past the end of the layer, or the body had no array.
EmptyPageFetched ==
  /\ offsets # <<>>
  /\ ~FeatureFetchFailed
  /\ offsets[Len(offsets)] >= layer \/ "body" \in faults

\* C16: a 200 answer with an empty or absent features array ends
\* download_features normally: nothing raised, the page was neither converted
\* nor loaded, and the total reported is the sum of the earlier pages.
C16_EmptyPageEndsCleanly ==
  EmptyPageFetched =>
    /\ pc # "features_loop"
    /\ failedIn # "download_features"
    /\ PhaseErrorLine("download_features") \notin lines
    /\ Len(converted) = Len(offsets) - 1
    /\ loads = Len(converted)
    /\ reported = SeqSum(converted)

\* A body without a features array, from a layer that holds features, ended
\* the phase and the run went on.
C16_Witness ==
  /\ "body" \in faults
  /\ layer > 0
  /\ reported = 0
  /\ pc = "attachments_start"

\* ---- C18
\* C18: once the streaming of row i has raised, the pass is over: row i and
\* the rows after it are not updated, nothing was deleted from the bucket, and
\* the rows before i keep the URL written for them.
C18_StreamFailureStopsPass ==
  "stream" \in faults =>
    LET i == Len(rowLog)
    IN /\ pc = "done"
       /\ failedIn = "transfer_attachments"
       /\ record_count = i
       /\ ~rowLog[i].uploaded /\ ~rowLog[i].updated
       /\ deleted = {}
       /\ listed \subseteq bucket
       /\ \A k \in 1..(i - 1) :
            /\ rowLog[k].updated
            /\ attTable.rows[k].url = CanonicalUrl(rowLog[k].target)
       /\ \A k \in i..Len(attTable.rows) : attTable.rows[k].url.host = "agol"

\* The second row's streaming raised while an orphan was listed and a later
\* row was waiting.
C18_Witness ==
  /\ "stream" \in faults
  /\ Len(rowLog) = 2
  /\ Len(attTable.rows) >= 3
  /\ \E o \in listed : \A k \in 1..Len(attTable.rows) : o # Target(attTable.rows[k])

\* ---- C20
\* C20 (as claimed): a run in which a phase raised has emitted an error line
\* and does not end by reporting successful completion.
C20_RaisedPhaseFailsRun ==
  failedIn # "none" =>
    /\ PhaseErrorLine(failedIn) \in lines
    /\ outcome = "error"
    /\ "Finished AGOL to PostgreSQL script" \notin lines

\* ---- C17
\* The items recorded as skipped, by what was done with them: skipped by the
\* date rule, failed in export or upload, or uploaded but not cleaned up.
RecordedSkipped ==
  SelectSeq(decisions, LAMBDA e : e.decision # "added" \/ ~e.cleaned)

\* C17: every item whose export raised or whose upload failed on all attempts
\* is in skipped_files (which holds, in order, exactly the items not added
\* cleanly), and the item loop ends only when every item up to the cap has
\* been handled, whatever failed before.
C17_FailedItemSkippedRunGoesOn ==
  /\ Len(decisions) = count
  /\ count <= Min(n_items, max_items)
  /\ skipped_files = [i \in 1..Len(RecordedSkipped) |-> RecordedSkipped[i].title]
  /\ \A i \in 1..Len(decisions) :
       decisions[i].decision \in {"failed", "upload_failed"} =>
         \E j \in 1..Len(skipped_files) : skipped_files[j] = decisions[i].title
  /\ b_pc \in {"prune", "b_done"} => count = Min(n_items, max_items)

\* After an item whose upload failed on every attempt, the next item was
\* exported and uploaded.
C17_Witness ==
  /\ b_pc \in {"prune", "b_done"}
  /\ Len(decisions) = 2
  /\ decisions[1].decision = "upload_failed"
  /\ decisions[2].decision = "added"

\* A row of the table whose URL names an object the bucket does not hold.
DanglingRow ==
  \E k \in 1..Len(attTable.rows) :
    /\ attTable.rows[k].url.host = "gcs"
    /\ attTable.rows[k].url.path \notin bucket

\* The same object has been uploaded by both runs.
DuplicateUpload ==
  \E u \in uploads, w \in uploads : u.run # w.run /\ u.target = w.target

\* C19: of two runs on the same table and bucket prefix, a row naming a missing
\* object and an object uploaded by both runs arise only when a run has moved
\* while the other was under way; two runs one after the other produce neither.
\* C19_Witness is the interleaving itself.
C19_AnomalyOnlyWhenRunsOverlap == (DanglingRow \/ DuplicateUpload) => overlapped

C19_Witness ==
  /\ \A r \in Runs : run_pc[r] = "done"
  /\ DuplicateUpload

\* C21 (as claimed): every merge of the staging rows joins them to the parent
\* table on the global id when the layer metadata declares a global-id field,
\* and on the object id when it declares none.
C21_JoinOnDeclaredIdentifier ==
  \A i \in 1..Len(joins) :
    joins[i] = IF globalIdField # "null"
               THEN [field |-> globalIdField, lookup |-> "parent_globalid"]
               ELSE [field |-> "OBJECTID", lookup |-> "parent_oid"]

\* C22 (as claimed): a native feature without geometry converts to an
\* interchange feature whose geometry is absent, and an absent interchange
\* geometry converts to an absent native geometry, neither conversion raising.
C22_AbsentMapsToAbsent ==
  /\ (g_pc \in {"geojson", "esri"} /\ g_native = NoGeometry) => g_geojson = NoGeometry
  /\ (g_pc = "esri" /\ g_geojson = NoGeometry) => g_esri = NoGeometry

\* Pages of download_features that came back with features.
NonEmptyFetches == {i \in 1..Len(offsets) : offsets[i] < layer}

\* C23 (as claimed): in a run without failure of the service, the database or
\* the loader, the loader is invoked once for every page that has features;
\* for a layer with a geometry type with the multi-geometry kind of the page
\* and the geometry column, for a layer without geometry with type NONE and no
\* spatial-reference options.
C23_LoaderInvokedWithPageKind ==
  (faults = {} /\ pc \notin {"parse", "start", "features_start", "features_loop"})
    => /\ Len(invocations) = Cardinality(NonEmptyFetches)
       /\ \A i \in 1..Len(invocations) :
            IF Truthy(metadata.geometryType)
            THEN /\ invocations[i].nlt \in {"MULTIPOLYGON", "MULTILINESTRING", "POINT",
                                             "MULTIPOINT"}
                 /\ Truthy(invocations[i].geometry_name)
            ELSE invocations[i] = [nlt |-> "NONE", geometry_name |-> "none",
                                   a_srs |-> "none", t_srs |-> "none"]

\* The identifier the layer's metadata gives: latestWkid, else wkid, else none.
MetadataEpsg ==
  LET sr == metadata.spatialReference
  IN IF "latestWkid" \in DOMAIN sr THEN sr.latestWkid
     ELSE IF "wkid" \in DOMAIN sr THEN sr.wkid
     ELSE "none"

ArgsParsed == pc # "parse" /\ outcome # "aborted"

GeneratorUnderWay == ArgsParsed /\ pc # "start" /\ "connect" \notin faults

\* C24: once the arguments are parsed, the source EPSG is the request's value
\* when the request carries one; otherwise, for a layer with geometry whose
\* metadata was fetched, the metadata's latestWkid when present, else its wkid,
\* else unresolved; without geometry it stays unresolved. A run on a layer with
\* geometry and an unresolved source EPSG emits the warning line and goes on to
\* download_features; no other run emits the warning.
C24_SourceEpsgResolution ==
  /\ ArgsParsed =>
       parsed.source_epsg =
         IF Truthy(request.source_epsg) THEN request.source_epsg
         ELSE IF ~parsed.has_geometry \/ "source_epsg" \in faults THEN "none"
         ELSE MetadataEpsg
  /\ (ArgsParsed /\ "geometry_type" \notin faults) =>
       parsed.has_geometry = Truthy(metadata.geometryType)
  /\ GeneratorUnderWay =>
       ("WARNING: No source_epsg" \in lines
          <=> (parsed.has_geometry /\ ~Truthy(parsed.source_epsg)))
  /\ (GeneratorUnderWay /\ pc = "features_start") => outcome = "running"

\* A polygon layer without spatial reference, no source_epsg in the request:
\* the warning was emitted and download_features is fetching pages.
C24_Witness ==
  /\ pc = "features_loop"
  /\ outcome = "running"
  /\ Truthy(metadata.geometryType)
  /\ ~Truthy(request.source_epsg)
  /\ metadata.spatialReference = NoSpatialReference
  /\ parsed.source_epsg = "none"
  /\ "WARNING: No source_epsg" \in lines

\* C25: after a sync that completed without error, the objects of the bucket
\* whose name starts with the table's name are exactly the expected objects
\* {table}/{attachmentid}{extension} of the table's rows, and every row's URL
\* is the bucket URL of its expected object.
C25_BucketMatchesRows ==
  SyncCompleted =>
    /\ {o \in bucket : StartsWith(o, table)}
         = {table \o <<"/", attTable.rows[k].attachmentid>> \o splitext(attTable.rows[k].name)[2] :
              k \in 1..Len(attTable.rows)}
    /\ \A k \in 1..Len(attTable.rows) :
         attTable.rows[k].url =
           [host |-> "gcs",
            path |-> table \o <<"/", attTable.rows[k].attachmentid>>
                       \o splitext(attTable.rows[k].name)[2]]

\* A completed sync that uploaded an object, kept one and deleted an orphan.
C25_Witness ==
  /\ SyncCompleted
  /\ deleted # {}
  /\ \E i \in 1..Len(rowLog) : rowLog[i].uploaded
  /\ \E i \in 1..Len(rowLog) : ~rowLog[i].uploaded

SecondSyncCompleted == pass = 2 /\ "Finished transferring attachments" \in lines

\* C26 (as claimed): a second sync directly after a successful one, the table
\* and the bucket unchanged in between, uploads nothing, deletes nothing and
\* leaves every row's URL and name as the first sync left them.
C26_SecondSyncChangesNothing ==
  SecondSyncCompleted =>
    /\ \A i \in 1..Len(rowLog) : ~rowLog[i].uploaded
    /\ deleted = {}
    /\ attTable.rows = first.rows
    /\ bucket = first.bucket

\* C27 (as claimed): when the feature table does not exist, download_features
\* issues no TRUNCATE and no DELETE and creates no table; when the attachment
\* table does not exist, download_attachments creates it, before any page is
\* fetched, and issues no TRUNCATE or DELETE for it.
C27_MissingTableLifecycle ==
  [][ /\ (pc = "features_start" /\ ~featTable.exists)
           => (~prep'.called /\ featTable' = featTable)
      /\ (pc = "attachments_start" /\ ~attTable.exists)
           => (~prep'.called /\ attTable'.exists /\ a_offsets' = <<>>) ]_vars

\* C27 (amended): as claimed for the feature table; a missing attachment table
\* is created, before any page is fetched and without TRUNCATE or DELETE, when
\* the feature table it references exists; when the feature table is missing
\* too the CREATE TABLE fails, download_attachments raises and no page is
\* fetched.
C27_MissingTableLifecycleWithParent ==
  [][ /\ (pc = "features_start" /\ ~featTable.exists)
           => (~prep'.called /\ featTable' = featTable)
      /\ (pc = "attachments_start" /\ ~attTable.exists)
           => /\ ~prep'.called
              /\ a_offsets' = <<>>
              /\ attTable'.exists <=> featTable.exists
              /\ featTable.exists => pc' = "attachments_loop"
              /\ ~featTable.exists => (pc' = "done" /\ failedIn' = "download_attachments")
      /\ (a_offsets = <<>> /\ a_offsets' # <<>>) => attTable.exists ]_vars

\* The attachment table was missing and has been created, nothing emptied, no
\* page fetched yet.
C27_Witness ==
  /\ pc = "attachments_loop"
  /\ ~prep.called
  /\ attTable = [exists |-> TRUE, rows |-> <<>>]
  /\ a_offsets = <<>>

C29_NoTokenNoWork ==
  token = "None" =>
    /\ r_pc = "r_done"
    /\ remote_calls = <<>>
    /\ prepared_features = NoFeatures
    /\ r_start = 0

\* Truncate was requested, the table has rows, the token was refused.
C29_Witness ==
  /\ token = "None"
  /\ r_pc = "r_done"
  /\ TruncateRequested(args.truncate)
  /\ pg_table.rows > 0
  /\ remote_layer.features # <<>>

\* The loop waits in a readline that cannot return while the child lives.
LoopBlocked ==
  \/ gen_pc = "stdout" /\ ~ReadlineReturns(out_pipe, child_alive)
  \/ gen_pc = "stderr" /\ ~ReadlineReturns(err_pipe, child_alive)

\* The child waits in a write to a full pipe.
ChildBlocked ==
  /\ child_alive
  /\ child_script # <<>>
  /\ IF Head(child_script) = "out" THEN out_pipe = PipeCapacity ELSE err_pipe = PipeCapacity

\* C30 (as claimed): the loop is never blocked in a read while the child is
\* blocked on a full pipe, and when the loop has ended the child has exited and
\* every line it wrote to stdout has been forwarded.
C30_StreamingNeverDeadlocks ==
  /\ ~(LoopBlocked /\ ChildBlocked)
  /\ gen_pc = "g_done" => (~child_alive /\ out_pipe = 0)

\* ---- C31, C32
\* download_attachments has returned normally and nothing has failed in the run.
AttachmentsDownloaded == a_reported >= 0 /\ faults = {}

\* The attachment ids of the pages the service returned for the requested offsets.
ReturnedAttachments ==
  UNION {{Flatten(AttachmentPage(groups, a_offsets[k], batch_size))[i] :
            i \in 1..Len(Flatten(AttachmentPage(groups, a_offsets[k], batch_size)))} :
         k \in 1..Len(a_offsets)}

\* C31 (as claimed): after a download_attachments run that completes, the
\* attachment table holds exactly one row for each attachment the service
\* returned during the run, and its row count equals the reported total.
C31_OneRowPerAttachment ==
  AttachmentsDownloaded =>
    /\ \A id \in ReturnedAttachments :
         Cardinality({r \in 1..Len(attTable.rows) : attTable.rows[r].attachmentid = id}) = 1
    /\ \A r \in 1..Len(attTable.rows) : attTable.rows[r].attachmentid \in ReturnedAttachments
    /\ Len(attTable.rows) = a_reported

\* The positions of the group list a request at the offset asks for.
RequestedGroups(offset) == {g \in 1..Len(groups) : offset < g /\ g <= offset + batch_size}

\* C32 (as claimed): when download_attachments has completed, every group of
\* the service's list lies in the window of exactly one requested offset, so
\* no group was requested twice and none was left when the run stopped.
C32_OffsetsCoverEveryGroupOnce ==
  AttachmentsDownloaded =>
    \A g \in 1..Len(groups) :
      Cardinality({k \in 1..Len(a_offsets) : g \in RequestedGroups(a_offsets[k])}) = 1

\* ---- C33
\* The service's page cap is smaller than the requested batch size.
CapBelowBatch == max_record_count < batch_size

C34_DeletesOnlyOwnObjects ==
  \A o \in deleted : StartsWith(o, table \o <<"/">>)

\* ---- C35
\* The run is over and has submitted no edit batch.
EndedBeforeAnyEdit ==
  /\ r_pc = "r_done"
  /\ \A i \in 1..Len(remote_calls) : remote_calls[i].op # "edit"

\* C35 (as claimed): when truncate is requested and the run ends before any
\* edit batch is submitted, the remote layer still holds the features it held
\* before the run.
C35_FailedRunKeepsRemoteFeatures ==
  (TruncateRequested(args.truncate) /\ EndedBeforeAnyEdit) =>
    remote_layer.features = held_before

\* ---- C36
\* download_as_fgdb has returned.
DownloadReturned == b_pc \in {"prune", "b_done"}

\* How often a title stands in a list of titles.
Occurrences(titles, t) == Cardinality({k \in 1..Len(titles) : titles[k] = t})

\* C36 (as claimed): when download_as_fgdb has returned, every processed item
\* stands in exactly one of added_files and skipped_files, the two lists
\* together hold min(items found, max_items) entries, and at most max_items
\* exports were started.
C36_BackupBookkeeping ==
  DownloadReturned =>
    /\ \A t \in Titles :
         Occurrences(added_files, t) + Occurrences(skipped_files, t) =
           Cardinality({k \in 1..Len(decisions) : decisions[k].title = t})
    /\ Len(added_files) + Len(skipped_files) = Min(n_items, max_items)
    /\ Cardinality({k \in 1..Len(decisions) : decisions[k].decision # "skipped"}) <= max_items

\* ---- C37
\* The archives of an item among the objects: its sanitized name, "_", a date
\* and an extension.
OwnArchives(objects, sanitized) ==
  {f \in objects : \E d \in 1..Today, ext \in {".gdb.zip", ".zip", ".txt"} :
                      f = sanitized \o <<"_">> \o strftime(d) \o <<ext>>}

\* The skip-or-export decision for the current item was taken on the bucket
\* as it is now.
DecidedOnThisBucket ==
  /\ item # NoItem
  /\ b_pc \in {"items", "upload"}
  /\ item.decision \in {"skipped", "failed", "uploading"}

\* C37 (as claimed): the skip-or-export decision for an item is the decision
\* taken on the bucket that holds the item's own archives only, so two buckets
\* that differ in archives of other items give the same decision.
C37_SkipDependsOnOwnArchives ==
  DecidedOnThisBucket =>
    (item.decision = "skipped" <=>
       SkipsItem(get_last_modified_date(OwnArchives(archives, sanitize_name(item.title)),
                                        sanitize_name(item.title)),
                 item.modified))

\* ---- C38
\* C38 (as claimed): for every retention duration of 0 days or more, when the
\* run's delete_old_archives has finished, the archive of every item uploaded
\* by the run is still in the bucket.
C38_UploadedArchiveSurvivesPruning ==
  (b_pc = "b_done" /\ duration >= 0) =>
    \A k \in 1..Len(added_files) :
      ArchiveName(sanitize_name(added_files[k]), Today) \in archives

====
